---- MODULE Spec2Model ----
(***************************************************************************)
(* Helix frame-export protocol: the guest-side GStreamer element           *)
(* (desktop/gst-vsockenc/gstvsockenc.c), the host-side dispatch loop and   *)
(* encoder callback (for-mac/qemu-helix/helix-frame-export.c) and the byte *)
(* streams between them.                                                   *)
(*                                                                         *)
(* Three systems are specified over the same variables:                    *)
(*   SpecPeer  the client against an arbitrary peer on the socket;         *)
(*   SpecHost  the host against an arbitrary guest on the socket;          *)
(*   Spec      the client and the host connected to each other.            *)
(***************************************************************************)
EXTENDS Integers, Sequences, FiniteSets, TLC

(***************************************************************************)
(* Bounds of the model.                                                    *)
(***************************************************************************)
\* frames handed to handle_frame in one run
MaxFrames == 3
\* sockets the client may open in one run
MaxConnects == 2
\* messages the arbitrary peer writes on one connection
MaxPeerMsgs == 2
\* bytes of raw pixels in an inline payload
PixelBytes == 2

(***************************************************************************)
(* Protocol constants.                                                     *)
(***************************************************************************)
HELIX_MSG_MAGIC == 1380341832
HELIX_MSG_FRAME_REQUEST == 1
HELIX_MSG_FRAME_RESPONSE == 2
HELIX_MSG_KEYFRAME_REQ == 3
HELIX_MSG_CONFIG_REQ == 4
HELIX_MSG_CONFIG_RESP == 5
HELIX_MSG_PING == 16
HELIX_MSG_PONG == 17
HELIX_MSG_ERROR == 255
HELIX_FORMAT_NV12 == 842094158
HELIX_FLAG_PIXEL_DATA == 1
DEFAULT_KEYFRAME_INTERVAL == 60
DEFAULT_CID == 2
DEFAULT_PORT == 5000
DEFAULT_TCP_PORT == 15937

\* sizeof of the packed structures
HeaderSize == 12
FrameRequestSize == 56
FrameResponseSize == 36
ConfigRequestSize == 40
ErrorResponseSize == 272
ErrorMessageSize == 256

HELIX_ERR_OK == 0
HELIX_ERR_INVALID_MSG == -1
HELIX_ERR_RESOURCE_NOT_FOUND == -2
HELIX_ERR_NO_IOSURFACE == -4
HELIX_ERR_ENCODE_FAILED == -5
HELIX_ERR_NOT_CONFIGURED == -6
HELIX_ERR_INTERNAL == -99

\* the session id both ends use
DefaultSessionId == 1
\* the largest value the model's integers hold (2^31 - 1)
MaxInt == 32767 * 65536 + 65535

NULL == 0

(***************************************************************************)
(* Byte layer: little-endian packed fields.                                *)
(***************************************************************************)
RECURSIVE LE(_, _)
\* the w low bytes of n, least significant first (two's complement for n < 0)
LE(n, w) == IF w = 0 THEN <<>> ELSE <<n % 256>> \o LE(n \div 256, w - 1)

Zeros(k) == [i \in 1..k |-> 0]

RECURSIVE UDec(_)
\* unsigned value of little-endian bytes; values of 2^31 and more, which the
\* model only ever compares with stream lengths, read as MaxInt
UDec(b) ==
    IF Len(b) = 0 THEN 0
    ELSE LET hi == UDec(Tail(b))
         IN IF hi >= 8388608 THEN MaxInt ELSE Head(b) + 256 * hi

\* signed value of little-endian bytes
SDec(b) ==
    IF Len(b) > 0 /\ b[Len(b)] >= 128
    THEN -(UDec([i \in 1..Len(b) |-> 255 - b[i]])) - 1
    ELSE UDec(b)

Drop(s, n) == IF n >= Len(s) THEN <<>> ELSE SubSeq(s, n + 1, Len(s))
Take(s, n) == IF n >= Len(s) THEN s ELSE SubSeq(s, 1, n)

\* HelixMsgHeader, packed: magic(4) msg_type(1) flags(1) session_id(2) payload_size(4)
EncodeHeader(h) ==
    LE(h.magic, 4) \o <<h.msg_type, h.flags>> \o LE(h.session_id, 2)
        \o LE(h.payload_size, 4)

DecodeHeader(b) ==
    [magic |-> UDec(SubSeq(b, 1, 4)), msg_type |-> b[5], flags |-> b[6],
     session_id |-> UDec(SubSeq(b, 7, 8)), payload_size |-> UDec(SubSeq(b, 9, 12))]

\* HelixFrameRequest, packed: header, resource_id width height format stride (u32),
\* pts duration (i64), force_keyframe (u8), reserved[7]
EncodeFrameRequest(r) ==
    EncodeHeader(r.header) \o LE(r.resource_id, 4) \o LE(r.width, 4)
        \o LE(r.height, 4) \o LE(r.format, 4) \o LE(r.stride, 4)
        \o LE(r.pts, 8) \o LE(r.duration, 8) \o <<r.force_keyframe>> \o Zeros(7)

DecodeFrameRequest(b) ==
    [header |-> DecodeHeader(SubSeq(b, 1, 12)),
     resource_id |-> UDec(SubSeq(b, 13, 16)), width |-> UDec(SubSeq(b, 17, 20)),
     height |-> UDec(SubSeq(b, 21, 24)), format |-> UDec(SubSeq(b, 25, 28)),
     stride |-> UDec(SubSeq(b, 29, 32)), pts |-> SDec(SubSeq(b, 33, 40)),
     duration |-> SDec(SubSeq(b, 41, 48)), force_keyframe |-> b[49]]

\* HelixFrameResponse, packed: header, pts dts (i64), is_keyframe (u8),
\* reserved[3], nal_count (u32); the NAL records follow
EncodeFrameResponse(r) ==
    EncodeHeader(r.header) \o LE(r.pts, 8) \o LE(r.dts, 8) \o <<r.is_keyframe>>
        \o Zeros(3) \o LE(r.nal_count, 4)

\* a reading of the body that takes dts before pts
DecodeFrameResponseBody_DtsFirst(b) ==
    [pts |-> SDec(SubSeq(b, 9, 16)), dts |-> SDec(SubSeq(b, 1, 8)),
     is_keyframe |-> b[17], nal_count |-> UDec(SubSeq(b, 21, 24))]
\* HelixConfigRequest, packed: header, width height bitrate framerate_num
\* framerate_den (u32), profile level realtime (u8), reserved[5]
EncodeConfigRequest(r) ==
    EncodeHeader(r.header) \o LE(r.width, 4) \o LE(r.height, 4)
        \o LE(r.bitrate, 4) \o LE(r.framerate_num, 4) \o LE(r.framerate_den, 4)
        \o <<r.profile, r.level, r.realtime>> \o Zeros(5)

\* the fixed body of a HelixFrameResponse, from the 24 bytes after the header
DecodeFrameResponseBody(b) ==
    [pts |-> SDec(SubSeq(b, 1, 8)), dts |-> SDec(SubSeq(b, 9, 16)),
     is_keyframe |-> b[17], nal_count |-> UDec(SubSeq(b, 21, 24))]

\* one NAL record: size (u32) and the bytes
EncodeNal(nal) == LE(Len(nal), 4) \o nal

RECURSIVE Digits(_)
\* decimal digits of n >= 0 as ASCII
Digits(n) == IF n < 10 THEN <<48 + n>> ELSE Digits(n \div 10) \o <<48 + (n % 10)>>

\* snprintf(message, 256, "Error: %d", code) into a zeroed buffer
ErrorMessage(code) ==
    LET text == <<69, 114, 114, 111, 114, 58, 32>>
                    \o (IF code < 0 THEN <<45>> \o Digits(-code) ELSE Digits(code))
    IN text \o Zeros(ErrorMessageSize - Len(text))

\* HelixErrorResponse, packed: header, error_code (i32), message[256]
EncodeErrorResponse(e) ==
    EncodeHeader(e.header) \o LE(e.error_code, 4) \o e.message

(***************************************************************************)
(* State.                                                                  *)
(***************************************************************************)
VARIABLES
    \* GstVsockEnc
    connected, socket_fd, pending_frame, frame_count, running, info,
    keyframe_interval,
    \* where the client connects to: the properties socket-path, tcp-host,
    \* tcp-port, cid and port
    socket_path, tcp_host, tcp_port, cid, port,
    \* a read_exact call followed read by read: its locals and what it did
    reading,
    \* the capture bridge process: its context, where main is, and the
    \* screen-cast backends started, stopped and destroyed so far
    bridge,
    \* the streaming thread: where it is, and the frame handle_frame holds
    pc, cur,
    \* file descriptors the client process holds open, and sockets opened so far
    open_fds, nconnects,
    \* frames: how many were handed in, and the finish_frame calls per frame
    nframes, finished,
    \* for each frame, the writes of a FrameRequest made for it
    requests,
    \* the call in progress or last returned, with what it did
    call,
    \* the two directions of the current connection
    c2h, h2c, h2c_eof, c2h_eof,
    \* the arbitrary peer of SpecPeer: bytes it still has to write, messages so far
    peer_out, peer_msgs,
    \* HelixFrameExport, and the VideoToolbox sessions that exist
    fe, vt_live, vt_created,
    \* frames VideoToolbox has accepted and not yet completed, oldest first
    enc_jobs,
    \* vsock_server_thread: where it is, the rest of a message it is sending
    host_pc, host_sending,
    \* the encoder's callback context: the rest of a message it is sending
    cb_sending,
    \* what the last dispatch did; the FrameRequests dispatched and answered (by
    \* pts); whether bytes of two messages were mixed on the socket
    disp, dispatched, answered, interleaved,
    \* the guest of SpecHost: messages written so far; for both guests, the
    \* lengths of the messages in c2h and the bytes read of the first of them
    guest_msgs, c2h_marks, c2h_off

\* the connection properties of GstVsockEnc
addrVars == <<socket_path, tcp_host, tcp_port, cid, port>>
clientVars == <<connected, socket_fd, pending_frame, frame_count, running, info,
                keyframe_interval, addrVars, bridge, reading,
                pc, cur, open_fds, nconnects, nframes, finished, requests, call>>
streamVars == <<c2h, h2c, h2c_eof, c2h_eof>>
peerVars == <<peer_out, peer_msgs>>
hostVars == <<fe, vt_live, vt_created, enc_jobs, host_pc, host_sending, cb_sending,
              disp, dispatched, answered, interleaved>>
guestVars == <<guest_msgs, c2h_marks, c2h_off>>
vars == <<clientVars, streamVars, peerVars, hostVars, guestVars>>

Frames == 1..MaxFrames
\* the presentation timestamp of frame f
PtsOf(f) == f
NoOutput == [nals |-> <<>>, sync |-> FALSE, dts |-> -1, attached |-> FALSE]
\* the address a socket is connected to: the family and the fields of its
\* sockaddr, NULL for those the family does not have
NoTarget == [family |-> "none", path |-> NULL, host |-> NULL, port |-> NULL,
             cid |-> NULL]
\* no read_exact call followed yet: the bytes taken from the stream and the
\* calls made so far, the call's n, total and buffer, the stream position it
\* began at, its read() calls and what the last of them returned, and what
\* the call returned
NoRead == [at |-> "none", n |-> 0, total |-> 0, buf |-> <<>>, start |-> 0,
           last |-> "none", interrupts |-> 0, reads |-> 0, ret |-> "none", taken |-> 0,
           calls |-> 0]
\* the capture bridge before main runs: the zero-initialised gwb_context,
\* main's position and result, the iterations of its loop, the backends
\* started, stopped and destroyed, and whether a stop was given a NULL backend
NewBridge ==
    [ctx |-> [wayland |-> NULL, screencast |-> NULL, portal |-> NULL,
              pipewire |-> NULL, running |-> FALSE, use_portal |-> FALSE,
              width |-> 0, height |-> 0],
     pc |-> "options", ret |-> -1, iters |-> 0, started |-> {}, stopped |-> {},
     destroyed |-> {}, stop_on_null |-> FALSE]
\* what a call did: the frame handed in, the slot at entry, the connect outcome,
\* the drain attempts made ("nb" polled, "b" blocking), the drain's outcome and
\* the frame it finished, the write's outcome and the state it was made in
NoCall == [op |-> "none", frame |-> NULL, entry_pending |-> NULL,
           connect |-> "none", attempts |-> <<>>, drain |-> "none",
           drained |-> NULL, drain_pts |-> 0, consumed |-> 0, out |-> NoOutput,
           write |-> "none", target |-> NoTarget,
           wrote_connected |-> TRUE, wrote_fd |-> -1, wrote_pending |-> NULL,
           ret |-> "none"]

(***************************************************************************)
(* Client: reads.                                                          *)
(***************************************************************************)
\* read_exact(fd, buf, n) with pos bytes of the stream already consumed:
\* "ok" when n bytes are there, "fail" when the stream ended before them
\* (read returned 0), "block" while the peer may still write them
read_exact(buf, pos, n, eof) ==
    IF Len(buf) - pos >= n THEN "ok"
    ELSE IF eof THEN "fail"
    ELSE "block"

\* poll(&pfd, 1, 0) > 0: bytes are readable, or the peer has closed
PollReadable(buf, eof) == Len(buf) > 0 \/ eof

Blocked == [kind |-> "block", consumed |-> 0, out |-> NoOutput, pts |-> 0]
\* a drain outcome that attaches no output; a failed read has consumed all
\* the stream held before its end
Dropped_SkipsNothing(kind, consumed) ==
    [kind |-> kind, consumed |-> IF kind = "skipped" THEN HeaderSize ELSE consumed,
     out |-> NoOutput, pts |-> 0]
\* a drain outcome that hands the frame on with an empty output buffer
Dropped_AttachesOutput(kind, consumed) ==
    [kind |-> kind, consumed |-> consumed,
     out |-> [NoOutput EXCEPT !.attached = TRUE], pts |-> 0]
Dropped(kind, consumed) ==
    [kind |-> kind, consumed |-> consumed, out |-> NoOutput, pts |-> 0]

\* a loop that stops after the first record
ReadNals_OneRecord(buf, pos, left, acc, eof) ==
    IF left = 0 THEN [kind |-> "ok", pos |-> pos, nals |-> acc]
    ELSE IF read_exact(buf, pos, 4, eof) # "ok"
    THEN [kind |-> "block", pos |-> pos, nals |-> acc]
    ELSE IF read_exact(buf, pos + 4, UDec(SubSeq(buf, pos + 1, pos + 4)), eof) # "ok"
    THEN [kind |-> "block", pos |-> pos, nals |-> acc]
    ELSE [kind |-> "ok", pos |-> pos + 4 + UDec(SubSeq(buf, pos + 1, pos + 4)),
          nals |-> Append(acc, SubSeq(buf, pos + 5,
                                      pos + 4 + UDec(SubSeq(buf, pos + 1, pos + 4))))]

RECURSIVE ReadNals(_, _, _, _, _)
\* the loop over resp.nal_count (size, bytes) records, from offset pos
ReadNals(buf, pos, left, acc, eof) ==
    IF left = 0 THEN [kind |-> "ok", pos |-> pos, nals |-> acc]
    ELSE LET rs == read_exact(buf, pos, 4, eof) IN
         IF rs = "block" THEN [kind |-> "block", pos |-> pos, nals |-> acc]
         ELSE IF rs = "fail" THEN [kind |-> "nal_size_fail", pos |-> Len(buf), nals |-> acc]
         ELSE LET nal_size == UDec(SubSeq(buf, pos + 1, pos + 4))
                  rd == read_exact(buf, pos + 4, nal_size, eof)
              IN IF rd = "block" THEN [kind |-> "block", pos |-> pos, nals |-> acc]
                 ELSE IF rd = "fail"
                 THEN [kind |-> "nal_data_fail", pos |-> Len(buf), nals |-> acc]
                 ELSE ReadNals(buf, pos + 4 + nal_size, left - 1,
                               Append(acc, SubSeq(buf, pos + 5, pos + 4 + nal_size)), eof)

\* the drain outcomes after which finish_pending sets connected = FALSE
MarksDisconnected_OnError(kind) == kind \in {"header_fail", "error"}
MarksDisconnected(kind) == kind = "header_fail"

\* gst_vsockenc_finish_pending past the poll: what the reads of one response
\* do on a stream holding buf (eof: the peer has closed)
FinishPendingReads(buf, eof) ==
    LET rh == read_exact(buf, 0, HeaderSize, eof) IN
    IF rh = "block" THEN Blocked
    ELSE IF rh = "fail" THEN Dropped("header_fail", Len(buf))
    ELSE
    LET header == DecodeHeader(SubSeq(buf, 1, HeaderSize)) IN
    IF header.magic # HELIX_MSG_MAGIC THEN Dropped("bad_magic", HeaderSize)
    ELSE IF header.msg_type = HELIX_MSG_ERROR THEN
        LET re == read_exact(buf, HeaderSize, ErrorResponseSize - HeaderSize, eof) IN
        IF re = "block" THEN Blocked
        ELSE IF re = "fail" THEN Dropped("error_body_fail", Len(buf))
        ELSE Dropped("error", ErrorResponseSize)
    ELSE IF header.msg_type # HELIX_MSG_FRAME_RESPONSE THEN
        IF header.payload_size > 0 THEN
            LET rk == read_exact(buf, HeaderSize, header.payload_size, eof) IN
            IF rk = "block" THEN Blocked
            ELSE IF rk = "fail" THEN Dropped("skip_fail", Len(buf))
            ELSE Dropped("skipped", HeaderSize + header.payload_size)
        ELSE Dropped("skipped", HeaderSize)
    ELSE
    LET rb == read_exact(buf, HeaderSize, FrameResponseSize - HeaderSize, eof) IN
    IF rb = "block" THEN Blocked
    ELSE IF rb = "fail" THEN Dropped("body_fail", Len(buf))
    ELSE
    LET resp == DecodeFrameResponseBody(SubSeq(buf, HeaderSize + 1, FrameResponseSize))
        n == ReadNals(buf, FrameResponseSize, resp.nal_count, <<>>, eof)
    IN IF n.kind = "block" THEN Blocked
       ELSE IF n.kind # "ok" THEN Dropped(n.kind, n.pos)
       ELSE [kind |-> "frame", consumed |-> n.pos,
             out |-> [nals |-> n.nals, sync |-> resp.is_keyframe # 0,
                      dts |-> resp.dts, attached |-> TRUE],
             pts |-> resp.pts]

\* the drain outcomes that are a failed read
ReadFailures == {"header_fail", "error_body_fail", "skip_fail", "body_fail",
                 "nal_size_fail", "nal_data_fail"}
\* the drain outcomes that finish the frame without a FrameResponse
DrainFailures == ReadFailures \cup {"bad_magic", "error", "skipped"}

(***************************************************************************)
(* Client: the element's operations.                                       *)
(***************************************************************************)
\* what a caller may hand to handle_frame: the virtio-gpu resource id found
\* for the buffer (0: none), whether a keyframe was requested, whether the
\* buffer can be mapped
ResourceIds == {0, 42}
FrameInputs ==
    {i \in [resource_id : ResourceIds, force : BOOLEAN, map_ok : BOOLEAN] :
        i.resource_id # 0 => i.map_ok}
\* the negotiated video formats (width, height, stride of plane 0)
VideoInfos == {[width |-> 1920, height |-> 1080, stride |-> 1920],
               [width |-> 3840, height |-> 2160, stride |-> 3840]}
\* the raw pixel bytes of a mapped buffer
PixelData == [i \in 1..PixelBytes |-> 170 + i]
\* bytes a short write of the fixed request transfers
ShortWriteBytes == 12
\* results of write() of the fixed request; of the pixel loop: the number of
\* pixel bytes written when it ended (all of them, or fewer: write() failed)
FixedWrites == {"ok", "short", "fail"}
PixelWrites == 0..PixelBytes

\* a disconnect that marks the element disconnected and keeps the socket
Disconnect_KeepsSocket ==
    /\ connected' = FALSE
    /\ UNCHANGED <<socket_fd, open_fds, c2h_eof>>

\* gst_vsockenc_disconnect
Disconnect ==
    /\ socket_fd' = -1
    /\ open_fds' = open_fds \ {socket_fd}
    /\ connected' = FALSE
    /\ c2h_eof' = (IF socket_fd >= 0 THEN TRUE ELSE c2h_eof)

\* a start that opens the connection itself
gst_vsockenc_start_Connects ==
    /\ pc = "idle"
    /\ ~running
    /\ ~connected
    /\ nconnects < MaxConnects
    /\ frame_count' = 0
    /\ running' = TRUE
    /\ pending_frame' = NULL
    /\ nconnects' = nconnects + 1
    /\ socket_fd' = nconnects + 1
    /\ open_fds' = open_fds \cup {nconnects + 1}
    /\ connected' = TRUE
    /\ c2h' = <<>>
    /\ h2c' = <<>>
    /\ h2c_eof' = FALSE
    /\ c2h_eof' = FALSE
    /\ call' = [NoCall EXCEPT !.op = "start", !.entry_pending = pending_frame,
                              !.connect = "ok", !.ret = "ok"]
    /\ UNCHANGED <<info, keyframe_interval, addrVars, bridge, reading, pc, cur, nframes, finished, requests>>

\* gst_vsockenc_start
gst_vsockenc_start ==
    /\ pc = "idle"
    /\ ~running
    /\ frame_count' = 0
    /\ running' = TRUE
    /\ pending_frame' = NULL
    /\ call' = [NoCall EXCEPT !.op = "start", !.entry_pending = pending_frame,
                              !.ret = "ok"]
    /\ UNCHANGED <<connected, socket_fd, info, keyframe_interval, addrVars, bridge, reading, pc, cur,
                   open_fds, nconnects, nframes, finished, requests,
                   streamVars>>

\* gst_vsockenc_set_format: new caps were negotiated
gst_vsockenc_set_format(i) ==
    /\ pc = "idle"
    /\ i # info
    /\ info' = i
    /\ UNCHANGED <<connected, socket_fd, pending_frame, frame_count, running,
                   keyframe_interval, addrVars, bridge, reading, pc, cur, open_fds, nconnects, nframes,
                   finished, requests, call, streamVars>>

\* where handle_frame goes after the poll of finish_pending(block = FALSE):
\* into the reads of that call, or into finish_pending(block = TRUE)
AfterPoll_NoBlockingDrain(ready) == IF ready THEN "drain_nb" ELSE "send"
AfterPoll(ready) == IF ready THEN "drain_nb" ELSE "drain_b"

\* the address gst_vsockenc_connect opens its socket to: the UNIX socket path
\* when one is set, else the TCP host and port, else the vsock CID and port
ConnectTarget ==
    IF socket_path # NULL
    THEN [NoTarget EXCEPT !.family = "AF_UNIX", !.path = socket_path]
    ELSE IF tcp_host # NULL
    THEN [NoTarget EXCEPT !.family = "AF_INET", !.host = tcp_host,
                          !.port = tcp_port]
    ELSE [NoTarget EXCEPT !.family = "AF_VSOCK", !.cid = cid, !.port = port]

\* gst_vsockenc_handle_frame up to the first read: the lazy connect and the
\* poll; conn_ok is the outcome of gst_vsockenc_connect when it is called
gst_vsockenc_handle_frame(in, conn_ok) ==
    /\ pc = "idle"
    /\ running
    /\ nframes < MaxFrames
    /\ nframes' = nframes + 1
    /\ LET f == nframes + 1
           hf == [NoCall EXCEPT !.op = "handle_frame", !.frame = f,
                                !.entry_pending = pending_frame,
                                !.target = IF connected THEN NoTarget
                                           ELSE ConnectTarget]
       IN
       IF ~connected /\ ~conn_ok
       THEN \* connect failed: GST_FLOW_ERROR
            /\ socket_fd' = -1
            /\ call' = [hf EXCEPT !.ret = "error", !.connect = "fail"]
            /\ UNCHANGED <<connected, pending_frame, pc, cur, open_fds,
                           nconnects, streamVars>>
       ELSE /\ IF ~connected
               THEN /\ nconnects < MaxConnects
                    /\ nconnects' = nconnects + 1
                    /\ socket_fd' = nconnects + 1
                    /\ open_fds' = open_fds \cup {nconnects + 1}
                    /\ connected' = TRUE
                    /\ c2h' = <<>>
                    /\ h2c' = <<>>
                    /\ h2c_eof' = FALSE
                    /\ c2h_eof' = FALSE
               ELSE /\ conn_ok
                    /\ UNCHANGED <<connected, socket_fd, open_fds, nconnects,
                                   streamVars>>
            /\ cur' = [frame |-> f, in |-> in]
            /\ IF pending_frame # NULL
               THEN LET ready == PollReadable(h2c', h2c_eof')
                    IN /\ pc' = AfterPoll(ready)
                       /\ call' = [hf EXCEPT
                              !.connect = IF connected THEN "none" ELSE "ok",
                              !.attempts = IF ready THEN <<"nb">> ELSE <<"nb", "b">>]
               ELSE /\ pc' = "send"
                    /\ call' = [hf EXCEPT
                              !.connect = IF connected THEN "none" ELSE "ok"]
            /\ UNCHANGED pending_frame
    /\ UNCHANGED <<frame_count, running, info, keyframe_interval, addrVars, bridge, reading, finished,
                   requests>>

\* the effect of gst_vsockenc_finish_pending once its reads are done
FinishPending(r, ret) ==
    /\ r.kind # "block"
    /\ h2c' = Drop(h2c, r.consumed)
    /\ finished' = [finished EXCEPT ![pending_frame] = @ + 1]
    /\ UNCHANGED requests
    /\ pending_frame' = NULL
    /\ call' = [call EXCEPT !.drain = r.kind, !.drained = pending_frame,
                            !.drain_pts = r.pts, !.consumed = r.consumed,
                            !.out = r.out, !.ret = ret]

\* the reads of finish_pending in handle_frame, polled or blocking
HandleFrameDrain ==
    /\ pc \in {"drain_nb", "drain_b"}
    /\ LET r == FinishPendingReads(h2c, h2c_eof)
       IN /\ FinishPending(r, "none")
          /\ connected' = IF MarksDisconnected(r.kind) THEN FALSE ELSE connected
    /\ pc' = "send"
    /\ UNCHANGED <<socket_fd, frame_count, running, info, keyframe_interval, addrVars, bridge, reading, cur,
                   open_fds, nconnects, nframes, c2h, h2c_eof, c2h_eof>>

\* a decision that counts the frame being sent
ForceKeyframe_CountsCurrent(requested, count, interval) ==
    requested \/ (interval > 0 /\ (count + 1) % interval = 0)
\* force_keyframe as handle_frame computes it
ForceKeyframe(requested, count, interval) ==
    requested \/ (interval > 0 /\ count % interval = 0)

\* the HelixFrameRequest handle_frame builds for the frame it holds
BuildFrameRequest(c, count) ==
    LET has_pixel_data == c.in.resource_id = 0 /\ c.in.map_ok
    IN [header |-> [magic |-> HELIX_MSG_MAGIC,
                    msg_type |-> HELIX_MSG_FRAME_REQUEST,
                    flags |-> IF has_pixel_data THEN HELIX_FLAG_PIXEL_DATA ELSE 0,
                    session_id |-> DefaultSessionId,
                    payload_size |-> (FrameRequestSize - HeaderSize)
                        + (IF has_pixel_data THEN Len(PixelData) ELSE 0)],
        resource_id |-> c.in.resource_id, width |-> info.width,
        height |-> info.height, format |-> HELIX_FORMAT_NV12,
        stride |-> info.stride, pts |-> PtsOf(c.frame), duration |-> 1,
        force_keyframe |->
            IF ForceKeyframe(c.in.force, count, keyframe_interval) THEN 1 ELSE 0]

\* whether a failed or short write of the fixed request, and a failed write
\* of the pixel payload, set connected = FALSE
FixedWriteFailureDisconnects == FALSE
PixelWriteFailureDisconnects == TRUE

\* a send that waits for the response of the frame it has just sent
HandleFrameSend_Synchronous(wfixed, wpixel) ==
    /\ pc = "send"
    /\ pc' = "idle"
    /\ wfixed = "ok"
    /\ wpixel = PixelBytes
    /\ socket_fd >= 0
    /\ c2h' = c2h \o EncodeFrameRequest(BuildFrameRequest(cur, frame_count))
    /\ frame_count' = frame_count + 1
    /\ h2c' = <<>>
    /\ finished' = [finished EXCEPT ![cur.frame] = @ + 1]
    /\ requests' = [requests EXCEPT ![cur.frame] = @ + 1]
    /\ pending_frame' = NULL
    /\ call' = [call EXCEPT !.write = "ok", !.ret = "ok", !.drain = "frame",
                            !.drained = cur.frame]
    /\ UNCHANGED <<connected, socket_fd, running, info, keyframe_interval, addrVars, bridge, reading, cur,
                   open_fds, nconnects, nframes, h2c_eof, c2h_eof>>

\* gst_vsockenc_handle_frame from building the request to its return
HandleFrameSend(wfixed, wpixel) ==
    /\ pc = "send"
    /\ pc' = "idle"
    /\ LET req == BuildFrameRequest(cur, frame_count)
           bytes == EncodeFrameRequest(req)
           has_pixel_data == req.header.flags = HELIX_FLAG_PIXEL_DATA
           at == [call EXCEPT !.wrote_connected = connected, !.wrote_fd = socket_fd,
                              !.wrote_pending = pending_frame]
       IN
       IF wfixed # "ok" \/ socket_fd < 0
       THEN /\ wfixed # "ok"
            /\ c2h' = IF wfixed = "short" /\ socket_fd >= 0
                      THEN c2h \o Take(bytes, ShortWriteBytes) ELSE c2h
            /\ connected' = IF FixedWriteFailureDisconnects THEN FALSE ELSE connected
            /\ call' = [at EXCEPT !.write = IF wfixed = "short" THEN "fixed_short"
                                            ELSE "fixed_fail",
                                 !.ret = "error"]
            /\ wpixel = PixelBytes
            /\ UNCHANGED <<pending_frame, frame_count>>
       ELSE IF has_pixel_data /\ wpixel < Len(PixelData)
       THEN /\ c2h' = c2h \o bytes \o Take(PixelData, wpixel)
            /\ connected' = IF PixelWriteFailureDisconnects THEN FALSE ELSE connected
            /\ call' = [at EXCEPT !.write = "pixel_fail", !.ret = "error"]
            /\ UNCHANGED <<pending_frame, frame_count>>
       ELSE /\ wpixel = PixelBytes
            /\ c2h' = c2h \o bytes \o (IF has_pixel_data THEN PixelData ELSE <<>>)
            /\ frame_count' = frame_count + 1
            /\ pending_frame' = cur.frame
            /\ call' = [at EXCEPT !.write = "ok", !.ret = "ok"]
            /\ UNCHANGED connected
    /\ UNCHANGED <<socket_fd, running, info, keyframe_interval, addrVars, bridge, reading, cur, open_fds,
                   nconnects, nframes, finished, h2c, h2c_eof, c2h_eof>>
    /\ requests' = IF socket_fd >= 0 /\ wfixed # "fail"
                   THEN [requests EXCEPT ![cur.frame] = @ + 1]
                   ELSE requests

\* whether stop drains: the condition guarding its finish_pending(block = TRUE)
StopDrains == pending_frame # NULL /\ connected

\* gst_vsockenc_stop up to its blocking drain, or to its return if none
gst_vsockenc_stop ==
    /\ pc = "idle"
    /\ running
    /\ running' = FALSE
    /\ LET st == [NoCall EXCEPT !.op = "stop", !.entry_pending = pending_frame]
       IN IF StopDrains
          THEN /\ pc' = "stop_drain"
               /\ call' = [st EXCEPT !.attempts = <<"b">>]
               /\ UNCHANGED <<connected, socket_fd, open_fds, c2h_eof>>
          ELSE /\ pc' = "idle"
               /\ call' = [st EXCEPT !.ret = "ok"]
               /\ Disconnect
    /\ UNCHANGED <<pending_frame, frame_count, info, keyframe_interval, addrVars, bridge, reading, cur,
                   nconnects, nframes, finished, requests, c2h, h2c, h2c_eof>>

\* the blocking drain of stop, then gst_vsockenc_disconnect and the return
StopDrain ==
    /\ pc = "stop_drain"
    /\ FinishPending(FinishPendingReads(h2c, h2c_eof), "ok")
    /\ Disconnect
    /\ pc' = "idle"
    /\ UNCHANGED <<frame_count, running, info, keyframe_interval, addrVars, bridge, reading, cur, nconnects,
                   nframes, c2h, h2c_eof>>

(***************************************************************************)
(* Host: message processing.                                               *)
(***************************************************************************)
\* sizeof(buffer) in vsock_server_thread
RecvBufferSize == 65536
\* the floor of the bitrate handle_frame_request computes
MinBitrate == 8000000

\* the HelixFrameExport that helix_frame_export_init allocates
NewFrameExport ==
    [encoder_session |-> NULL, width |-> 0, height |-> 0, bitrate |-> 0,
     realtime |-> FALSE, configured |-> FALSE, session_id |-> DefaultSessionId,
     frames_encoded |-> 0, bytes_sent |-> 0, encode_errors |-> 0]

RECURSIVE ProductDigit(_, _, _, _)
\* sum of a[i+1] * b[k-i+1] over the i in 0..upto for which both exist
ProductDigit(a, b, k, upto) ==
    IF upto < 0 THEN 0
    ELSE (IF upto + 1 <= Len(a) /\ k - upto >= 0 /\ k - upto + 1 <= Len(b)
          THEN a[upto + 1] * b[k - upto + 1] ELSE 0)
         + ProductDigit(a, b, k, upto - 1)

RECURSIVE MulLE(_, _, _, _, _)
\* the n low bytes of the product of two little-endian numbers, from byte k
MulLE(a, b, k, carry, n) ==
    IF k = n THEN <<>>
    ELSE LET sum == carry + ProductDigit(a, b, k, k)
         IN <<sum % 256>> \o MulLE(a, b, k + 1, sum \div 256, n)

\* int64 pixels = width * height; int32 bitrate = (int32)(pixels * 4), at
\* least MinBitrate. width_b and height_b are the request's uint32 fields.
DefaultBitrate(width_b, height_b) ==
    LET pixels == MulLE(width_b, height_b, 0, 0, 8)
        bitrate == SDec(Take(MulLE(pixels, <<4>>, 0, 0, 8), 4))
    IN IF bitrate < MinBitrate THEN MinBitrate ELSE bitrate

\* the host's view of a HelixFrameRequest: width and height as the int32
\* they are compared and stored as, and as the bytes received
HostFrameRequest(b) ==
    [resource_id |-> UDec(SubSeq(b, 13, 16)),
     width |-> SDec(SubSeq(b, 17, 20)), height |-> SDec(SubSeq(b, 21, 24)),
     width_b |-> SubSeq(b, 17, 20), height_b |-> SubSeq(b, 21, 24),
     pts |-> SDec(SubSeq(b, 33, 40)), duration |-> SDec(SubSeq(b, 41, 48)),
     force_keyframe |-> b[49]]

\* the host's view of a HelixConfigRequest
HostConfigRequest(b) ==
    [width |-> SDec(SubSeq(b, 13, 16)), height |-> SDec(SubSeq(b, 17, 20)),
     bitrate |-> SDec(SubSeq(b, 21, 24)), realtime |-> b[35]]

\* the state a dispatch works on and returns: the context, the VideoToolbox
\* sessions alive and created so far, the frames being encoded
HostState(f, live, created, jobs) ==
    [fe |-> f, live |-> live, created |-> created, jobs |-> jobs]

\* a configuration that leaves the previous session alive
create_encoder_session_KeepsOld(h, width, height, bitrate, realtime, ok) ==
    IF ok
    THEN [ret |-> 0,
          st |-> [h EXCEPT !.live = h.live \cup {h.created + 1},
                           !.created = h.created + 1,
                           !.fe = [h.fe EXCEPT !.encoder_session = h.created + 1,
                                               !.width = width,
                                               !.height = height,
                                               !.bitrate = bitrate,
                                               !.realtime = realtime,
                                               !.configured = TRUE]]]
    ELSE [ret |-> -1,
          st |-> [h EXCEPT !.fe = [h.fe EXCEPT !.encoder_session = NULL]]]

\* create_encoder_session; ok: VTCompressionSessionCreate and
\* PrepareToEncodeFrames both succeed
create_encoder_session(h, width, height, bitrate, realtime, ok) ==
    LET live == h.live \ {h.fe.encoder_session}
    IN IF ok
       THEN [ret |-> 0,
             st |-> [h EXCEPT !.live = live \cup {h.created + 1},
                              !.created = h.created + 1,
                              !.fe = [h.fe EXCEPT !.encoder_session = h.created + 1,
                                                  !.width = width,
                                                  !.height = height,
                                                  !.bitrate = bitrate,
                                                  !.realtime = realtime,
                                                  !.configured = TRUE]]]
       ELSE [ret |-> -1,
             st |-> [h EXCEPT !.live = live,
                              !.fe = [h.fe EXCEPT !.encoder_session = NULL]]]

\* helix_encode_iosurface; encode: the outcome of CVPixelBufferCreateWithIOSurface
\* and VTCompressionSessionEncodeFrame
helix_encode_iosurface(h, pts, force_keyframe, encode) ==
    IF ~h.fe.configured \/ h.fe.encoder_session = NULL
    THEN [ret |-> HELIX_ERR_NOT_CONFIGURED, st |-> h]
    ELSE IF encode = "no_iosurface" THEN [ret |-> HELIX_ERR_NO_IOSURFACE, st |-> h]
    ELSE IF encode = "failed" THEN [ret |-> HELIX_ERR_ENCODE_FAILED, st |-> h]
    ELSE [ret |-> HELIX_ERR_OK,
          st |-> [h EXCEPT !.jobs = Append(@, [pts |-> pts,
                                               session |-> h.fe.encoder_session,
                                               force_keyframe |-> force_keyframe])]]

\* the condition under which handle_frame_request configures the encoder
NeedsConfigure(f, req) ==
    ~f.configured \/ f.width # req.width \/ f.height # req.height

\* what a dispatch reports besides its return code
NoDispatch == [type |-> "none", ret |-> 0, pts |-> 0, width |-> 0, height |-> 0,
               configure |-> "none", lookup |-> "none", submitted |-> FALSE,
               wrote |-> "none", out_len |-> 0, out_type |-> 0, out_code |-> 0,
               aligned |-> TRUE, why |-> "none"]

\* handle_frame_request; env: the outcomes of the external calls
handle_frame_request(h, req, env) ==
    LET need == NeedsConfigure(h.fe, req)
        c == IF need
             THEN create_encoder_session(h, req.width, req.height,
                      DefaultBitrate(req.width_b, req.height_b), TRUE, env.create)
             ELSE [ret |-> 0, st |-> h]
        info0 == [NoDispatch EXCEPT !.type = "frame", !.pts = req.pts,
                      !.width = req.width, !.height = req.height,
                      !.configure = IF ~need THEN "none"
                                    ELSE IF c.ret = 0 THEN "ok" ELSE "failed"]
    IN IF c.ret # 0
       THEN [ret |-> HELIX_ERR_INTERNAL, st |-> c.st, info |-> info0]
       ELSE IF ~env.lookup
       THEN [ret |-> HELIX_ERR_RESOURCE_NOT_FOUND, st |-> c.st,
             info |-> [info0 EXCEPT !.lookup = "not_found"]]
       ELSE LET e == helix_encode_iosurface(c.st, req.pts,
                                            req.force_keyframe # 0, env.encode)
            IN [ret |-> e.ret, st |-> e.st,
                info |-> [info0 EXCEPT !.lookup = "found"]]

\* handle_config_request
handle_config_request(h, req, env) ==
    LET c == create_encoder_session(h, req.width, req.height, req.bitrate,
                                    req.realtime # 0, env.create)
    IN [ret |-> IF c.ret = 0 THEN HELIX_ERR_OK ELSE HELIX_ERR_INTERNAL,
        st |-> c.st,
        info |-> [NoDispatch EXCEPT !.type = "config",
                      !.configure = IF c.ret = 0 THEN "ok" ELSE "failed"]]

\* a dispatch that hands a ConfigRequest to its handler whatever its length
helix_frame_export_process_msg_NoConfigLength(h, data, env) ==
    LET invalid(why) == [ret |-> HELIX_ERR_INVALID_MSG, st |-> h,
                         info |-> [NoDispatch EXCEPT !.type = "invalid",
                                                     !.why = why]]
    IN IF Len(data) < HeaderSize THEN invalid("short")
       ELSE LET header == DecodeHeader(SubSeq(data, 1, HeaderSize)) IN
       IF header.magic # HELIX_MSG_MAGIC THEN invalid("magic")
       ELSE IF header.msg_type = HELIX_MSG_FRAME_REQUEST THEN
           IF Len(data) < FrameRequestSize THEN invalid("frame_short")
           ELSE handle_frame_request(h, HostFrameRequest(data), env)
       ELSE IF header.msg_type = HELIX_MSG_CONFIG_REQ THEN
           handle_config_request(h, HostConfigRequest(data), env)
       ELSE IF header.msg_type = HELIX_MSG_KEYFRAME_REQ THEN
           [ret |-> HELIX_ERR_OK, st |-> h,
            info |-> [NoDispatch EXCEPT !.type = "keyframe"]]
       ELSE IF header.msg_type = HELIX_MSG_PING THEN
           [ret |-> HELIX_ERR_OK, st |-> h,
            info |-> [NoDispatch EXCEPT !.type = "ping",
                                        !.pts = header.session_id]]
       ELSE invalid("type")

\* a dispatch that knows no KeyframeRequest and rejects it as an unknown type
helix_frame_export_process_msg_NoKeyframeType(h, data, env) ==
    LET invalid(why) == [ret |-> HELIX_ERR_INVALID_MSG, st |-> h,
                         info |-> [NoDispatch EXCEPT !.type = "invalid",
                                                     !.why = why]]
    IN IF Len(data) < HeaderSize THEN invalid("short")
       ELSE LET header == DecodeHeader(SubSeq(data, 1, HeaderSize)) IN
       IF header.magic # HELIX_MSG_MAGIC THEN invalid("magic")
       ELSE IF header.msg_type = HELIX_MSG_FRAME_REQUEST THEN
           IF Len(data) < FrameRequestSize THEN invalid("frame_short")
           ELSE handle_frame_request(h, HostFrameRequest(data), env)
       ELSE IF header.msg_type = HELIX_MSG_CONFIG_REQ THEN
           IF Len(data) < ConfigRequestSize THEN invalid("config_short")
           ELSE handle_config_request(h, HostConfigRequest(data), env)
       ELSE IF header.msg_type = HELIX_MSG_PING THEN
           [ret |-> HELIX_ERR_OK, st |-> h,
            info |-> [NoDispatch EXCEPT !.type = "ping",
                                        !.pts = header.session_id]]
       ELSE invalid("type")

\* helix_frame_export_process_msg on the len = Len(data) bytes received
helix_frame_export_process_msg(h, data, env) ==
    LET invalid(why) == [ret |-> HELIX_ERR_INVALID_MSG, st |-> h,
                         info |-> [NoDispatch EXCEPT !.type = "invalid",
                                                     !.why = why]]
    IN IF Len(data) < HeaderSize THEN invalid("short")
       ELSE LET header == DecodeHeader(SubSeq(data, 1, HeaderSize)) IN
       IF header.magic # HELIX_MSG_MAGIC THEN invalid("magic")
       ELSE IF header.msg_type = HELIX_MSG_FRAME_REQUEST THEN
           IF Len(data) < FrameRequestSize THEN invalid("frame_short")
           ELSE handle_frame_request(h, HostFrameRequest(data), env)
       ELSE IF header.msg_type = HELIX_MSG_CONFIG_REQ THEN
           IF Len(data) < ConfigRequestSize THEN invalid("config_short")
           ELSE handle_config_request(h, HostConfigRequest(data), env)
       ELSE IF header.msg_type = HELIX_MSG_KEYFRAME_REQ THEN
           [ret |-> HELIX_ERR_OK, st |-> h,
            info |-> [NoDispatch EXCEPT !.type = "keyframe"]]
       ELSE IF header.msg_type = HELIX_MSG_PING THEN
           [ret |-> HELIX_ERR_OK, st |-> h,
            info |-> [NoDispatch EXCEPT !.type = "ping",
                                        !.pts = header.session_id]]
       ELSE invalid("type")

(***************************************************************************)
(* Host: the dispatch thread and the encoder's callback thread.            *)
(***************************************************************************)
\* the outcomes of the external calls of one dispatch: encoder creation,
\* resource lookup, submission
HostEnvs == [create : BOOLEAN, lookup : BOOLEAN,
             encode : {"ok", "no_iosurface", "failed"}]

\* what one recv may return of the bytes sent: all that has arrived, which
\* the transport may have cut after a header or a fixed request
RecvSizes(buf) ==
    {k \in {Len(buf), HeaderSize, FrameRequestSize} :
        1 <= k /\ k <= Len(buf) /\ k <= RecvBufferSize}

\* how much of a send is on the socket when another thread's send can
\* overtake it: all of it, or a part
SendCut(out, whole) == IF whole THEN Len(out) ELSE Len(out) \div 2

RECURSIVE ConsumeMarks(_, _, _)
\* the message boundaries left in the stream after n more bytes are taken:
\* marks are the lengths of the messages sent, off the bytes of the first
\* already taken
ConsumeMarks(marks, off, n) ==
    IF n = 0 \/ marks = <<>> THEN [marks |-> marks, off |-> off]
    ELSE IF off + n >= Head(marks)
         THEN ConsumeMarks(Tail(marks), 0, off + n - Head(marks))
         ELSE [marks |-> marks, off |-> off + n]

\* an error response whose payload_size counts the header too
HostErrorResponse_WholeSize(f, ret) ==
    EncodeErrorResponse(
        [header |-> [magic |-> HELIX_MSG_MAGIC, msg_type |-> HELIX_MSG_ERROR,
                     flags |-> 0, session_id |-> f.session_id,
                     payload_size |-> ErrorResponseSize],
         error_code |-> ret, message |-> ErrorMessage(ret)])

\* the HelixErrorResponse vsock_server_thread builds
HostErrorResponse(f, ret) ==
    EncodeErrorResponse(
        [header |-> [magic |-> HELIX_MSG_MAGIC, msg_type |-> HELIX_MSG_ERROR,
                     flags |-> 0, session_id |-> f.session_id,
                     payload_size |-> ErrorResponseSize - HeaderSize],
         error_code |-> ret, message |-> ErrorMessage(ret)])

\* a pong that carries the host's own session id
HostPong_OwnSession(session_id) ==
    EncodeHeader([magic |-> HELIX_MSG_MAGIC, msg_type |-> HELIX_MSG_PONG,
                  flags |-> 0, session_id |-> DefaultSessionId, payload_size |-> 0])

\* the pong helix_frame_export_process_msg sends
HostPong(session_id) ==
    EncodeHeader([magic |-> HELIX_MSG_MAGIC, msg_type |-> HELIX_MSG_PONG,
                  flags |-> 0, session_id |-> session_id, payload_size |-> 0])

\* one iteration of vsock_server_thread: recv returns n bytes, which are
\* processed as one message, and the pong or the error response is sent
\* (whole, or in two parts between which another send may fall). Configuring over a live
\* session waits in VTCompressionSessionCompleteFrames for its frames.
HostDispatch(n, env, whole) ==
    /\ host_pc = "recv"
    /\ host_sending = <<>>
    /\ n \in RecvSizes(c2h)
    /\ \E r \in {helix_frame_export_process_msg(
                    HostState(fe, vt_live, vt_created, enc_jobs), Take(c2h, n), env)} :
       \E out \in {IF r.info.type = "ping" THEN HostPong(r.info.pts)
                   ELSE IF r.ret # HELIX_ERR_OK THEN HostErrorResponse(r.st.fe, r.ret)
                   ELSE <<>>} :
       \E m \in {ConsumeMarks(c2h_marks, c2h_off, n)} :
       LET open == ~c2h_eof
       IN /\ out = <<>> => whole
          /\ (r.info.configure # "none" /\ fe.encoder_session # NULL)
                 => (enc_jobs = <<>> /\ cb_sending = <<>>)
          /\ c2h' = Drop(c2h, n)
          /\ c2h_marks' = m.marks
          /\ c2h_off' = m.off
          /\ fe' = r.st.fe
          /\ vt_live' = r.st.live
          /\ vt_created' = r.st.created
          /\ enc_jobs' = r.st.jobs
          /\ h2c' = IF open THEN h2c \o Take(out, SendCut(out, whole)) ELSE h2c
          /\ host_sending' = IF open THEN Drop(out, SendCut(out, whole)) ELSE <<>>
          /\ interleaved' = (interleaved \/ (open /\ out # <<>> /\ cb_sending # <<>>))
          /\ disp' = [r.info EXCEPT
                         !.ret = r.ret,
                         !.submitted = (r.st.jobs # enc_jobs),
                         !.out_len = IF open THEN Len(out) ELSE 0,
                         !.out_type = IF open /\ Len(out) >= HeaderSize
                                      THEN DecodeHeader(out).msg_type ELSE 0,
                         !.out_code = IF open /\ Len(out) >= HeaderSize + 4
                                      THEN SDec(SubSeq(out, HeaderSize + 1, HeaderSize + 4))
                                      ELSE 0,
                         !.wrote = IF out = <<>> THEN "none"
                                   ELSE IF ~open THEN "failed"
                                   ELSE IF r.info.type = "ping" THEN "pong"
                                   ELSE "error",
                         !.aligned = (c2h_off = 0 /\ c2h_marks # <<>>
                                        /\ n = Head(c2h_marks))]
          /\ dispatched' = IF r.info.type = "frame"
                           THEN Append(dispatched,
                                    [pts |-> r.info.pts,
                                     aligned |-> (c2h_off = 0 /\ c2h_marks # <<>>
                                                    /\ n = Head(c2h_marks))])
                           ELSE dispatched
          /\ answered' = IF r.info.type = "frame" /\ r.ret # HELIX_ERR_OK /\ open
                         THEN Append(answered,
                                     [pts |-> r.info.pts, code |-> r.ret,
                                      dts |-> 0, is_keyframe |-> FALSE,
                                      nals |-> <<>>,
                                      payload_size |-> Len(out) - HeaderSize])
                         ELSE answered
    /\ UNCHANGED <<clientVars, h2c_eof, c2h_eof, peerVars, host_pc, cb_sending,
                   guest_msgs>>

\* the rest of a send of the dispatch thread
HostSendRest ==
    /\ host_sending # <<>>
    /\ h2c' = IF c2h_eof THEN h2c ELSE h2c \o host_sending
    /\ host_sending' = <<>>
    /\ UNCHANGED <<clientVars, c2h, h2c_eof, c2h_eof, peerVars, fe, vt_live,
                   vt_created, enc_jobs, host_pc, cb_sending, disp, dispatched,
                   answered, interleaved, guestVars>>

\* recv returns 0: the guest has closed; the thread leaves its loop
HostRecvEof ==
    /\ host_pc = "recv"
    /\ host_sending = <<>>
    /\ c2h = <<>>
    /\ c2h_eof
    /\ host_pc' = "exit"
    /\ UNCHANGED <<clientVars, streamVars, peerVars, fe, vt_live, vt_created,
                   enc_jobs, host_sending, cb_sending, disp, dispatched, answered,
                   interleaved, guestVars>>

\* errno of a recv that returned -1: interrupted by a signal, or an error of
\* the connection
RecvErrors == {"EINTR", "ECONNRESET"}

\* recv returns -1 with this errno: the thread leaves its loop, having
\* reported every errno but EINTR
HostRecvFails(errno) ==
    /\ host_pc = "recv"
    /\ host_sending = <<>>
    /\ host_pc' = "exit"
    /\ disp' = [NoDispatch EXCEPT !.type = "recv", !.why = errno]
    /\ UNCHANGED <<clientVars, streamVars, peerVars, fe, vt_live, vt_created,
                   enc_jobs, host_sending, cb_sending, dispatched, answered,
                   interleaved, guestVars>>

\* what VideoToolbox hands the callback: an encoded sample (sync or not), an
\* error status, or no sample
EncoderOutcomes == {"keyframe", "delta", "error", "no_sample"}
\* the encoded bytes of the frame with timestamp pts
NalOf(pts) == <<200 + (pts % 50)>>
\* the decode timestamp of that sample, in nanoseconds
DtsOf(pts) == pts + 100

\* the message encoder_output_callback builds
CallbackResponse(f, pts, dts, is_keyframe, nal) ==
    EncodeFrameResponse(
        [header |-> [magic |-> HELIX_MSG_MAGIC, msg_type |-> HELIX_MSG_FRAME_RESPONSE,
                     flags |-> 0, session_id |-> f.session_id,
                     payload_size |-> (FrameResponseSize + 4 + Len(nal)) - HeaderSize],
         pts |-> pts, dts |-> dts, is_keyframe |-> IF is_keyframe THEN 1 ELSE 0,
         nal_count |-> 1]) \o EncodeNal(nal)

\* encoder_output_callback for the oldest frame in the encoder
encoder_output_callback(outcome, whole) ==
    /\ enc_jobs # <<>>
    /\ cb_sending = <<>>
    /\ enc_jobs' = Tail(enc_jobs)
    /\ \E job \in {Head(enc_jobs)} :
       \E out \in {IF outcome \in {"keyframe", "delta"}
                   THEN CallbackResponse(fe, job.pts, DtsOf(job.pts),
                                         outcome = "keyframe", NalOf(job.pts))
                   ELSE <<>>} :
       LET open == ~c2h_eof
       IN /\ out = <<>> => whole
          /\ IF outcome = "error"
             THEN fe' = [fe EXCEPT !.encode_errors = @ + 1]
             ELSE IF out # <<>> /\ open
             THEN fe' = [fe EXCEPT !.frames_encoded = @ + 1,
                                   !.bytes_sent = @ + Len(out)]
             ELSE fe' = fe
          /\ h2c' = IF open THEN h2c \o Take(out, SendCut(out, whole)) ELSE h2c
          /\ cb_sending' = IF open THEN Drop(out, SendCut(out, whole)) ELSE <<>>
          /\ interleaved' = (interleaved \/ (open /\ out # <<>> /\ host_sending # <<>>))
          /\ answered' = IF out # <<>> /\ open
                         THEN Append(answered,
                                     [pts |-> job.pts, code |-> HELIX_ERR_OK,
                                      dts |-> DtsOf(job.pts),
                                      is_keyframe |-> outcome = "keyframe",
                                      nals |-> <<NalOf(job.pts)>>,
                                      payload_size |-> Len(out) - HeaderSize])
                         ELSE answered
    /\ UNCHANGED <<clientVars, c2h, h2c_eof, c2h_eof, peerVars, vt_live, vt_created,
                   host_pc, host_sending, disp, dispatched, guestVars>>

\* the rest of a send of the callback thread
CallbackSendRest ==
    /\ cb_sending # <<>>
    /\ h2c' = IF c2h_eof THEN h2c ELSE h2c \o cb_sending
    /\ cb_sending' = <<>>
    /\ UNCHANGED <<clientVars, c2h, h2c_eof, c2h_eof, peerVars, fe, vt_live,
                   vt_created, enc_jobs, host_pc, host_sending, disp, dispatched,
                   answered, interleaved, guestVars>>

HostInit ==
    /\ fe = NewFrameExport
    /\ vt_live = {}
    /\ vt_created = 0
    /\ enc_jobs = <<>>
    /\ host_pc = "recv"
    /\ host_sending = <<>>
    /\ cb_sending = <<>>
    /\ disp = NoDispatch
    /\ dispatched = <<>>
    /\ answered = <<>>
    /\ interleaved = FALSE
    /\ c2h_marks = <<>>
    /\ c2h_off = 0

(***************************************************************************)
(* The arbitrary peer of SpecPeer: any process on the other end of the     *)
(* socket, writing well-formed and malformed messages, whole or in parts,  *)
(* and closing when it likes.                                              *)
(***************************************************************************)
PeerHeader(magic, type, payload_size) ==
    [magic |-> magic, msg_type |-> type, flags |-> 0,
     session_id |-> DefaultSessionId, payload_size |-> payload_size]

RECURSIVE EncodeNals(_)
EncodeNals(nals) ==
    IF nals = <<>> THEN <<>> ELSE EncodeNal(Head(nals)) \o EncodeNals(Tail(nals))

PeerFrameResponse(pts, dts, key, nals) ==
    LET body == EncodeNals(nals)
    IN EncodeFrameResponse(
           [header |-> PeerHeader(HELIX_MSG_MAGIC, HELIX_MSG_FRAME_RESPONSE,
                                  (FrameResponseSize - HeaderSize) + Len(body)),
            pts |-> pts, dts |-> dts, is_keyframe |-> key,
            nal_count |-> Len(nals)]) \o body

PeerError(code) ==
    EncodeErrorResponse(
        [header |-> PeerHeader(HELIX_MSG_MAGIC, HELIX_MSG_ERROR,
                               ErrorResponseSize - HeaderSize),
         error_code |-> code, message |-> ErrorMessage(code)])

\* the frame responses the peer may send: a sync point of one NAL unit
\* (is_keyframe is any non-zero byte) and a delta frame of two
PeerFrames ==
    { [pts |-> 1, dts |-> 11, is_keyframe |-> 2, nals |-> <<(<<101>>)>>],
      [pts |-> 2, dts |-> 12, is_keyframe |-> 0,
       nals |-> <<(<<102, 103>>), (<<104>>)>>] }

PeerMessages ==
    { PeerFrameResponse(r.pts, r.dts, r.is_keyframe, r.nals) : r \in PeerFrames }
    \cup
    {
      PeerError(HELIX_ERR_RESOURCE_NOT_FOUND),
      EncodeHeader(PeerHeader(HELIX_MSG_MAGIC, HELIX_MSG_PONG, 0)),
      EncodeHeader(PeerHeader(HELIX_MSG_MAGIC, HELIX_MSG_CONFIG_RESP, 3)) \o <<1, 2, 3>>,
      EncodeHeader(PeerHeader(0, HELIX_MSG_FRAME_RESPONSE, 0)) }

\* where the peer may cut a message into two writes
PeerCuts(m) == {Len(m)} \cup {c \in {4, HeaderSize, FrameResponseSize,
                                    FrameResponseSize + 4} : c < Len(m)}

PeerWrite(m, cut) ==
    /\ socket_fd >= 0
    /\ ~h2c_eof
    /\ peer_out = <<>>
    /\ h2c = <<>>
    /\ peer_msgs < MaxPeerMsgs
    /\ peer_msgs' = peer_msgs + 1
    /\ h2c' = h2c \o Take(m, cut)
    /\ peer_out' = Drop(m, cut)
    /\ UNCHANGED <<clientVars, c2h, h2c_eof, c2h_eof, hostVars, guestVars>>

PeerFlush ==
    /\ socket_fd >= 0
    /\ ~h2c_eof
    /\ peer_out # <<>>
    /\ h2c' = h2c \o peer_out
    /\ peer_out' = <<>>
    /\ UNCHANGED <<clientVars, c2h, h2c_eof, c2h_eof, peer_msgs, hostVars, guestVars>>

\* the peer closes the connection (after whatever part it wrote)
PeerClose ==
    /\ socket_fd >= 0
    /\ ~h2c_eof
    /\ h2c_eof' = TRUE
    /\ peer_out' = <<>>
    /\ UNCHANGED <<clientVars, c2h, h2c, c2h_eof, peer_msgs, hostVars, guestVars>>

\* the peer reads what the client wrote
PeerRead ==
    /\ c2h # <<>>
    /\ c2h' = <<>>
    /\ UNCHANGED <<clientVars, h2c, h2c_eof, c2h_eof, peerVars, hostVars, guestVars>>

\* a new connection has a new peer end
PeerAccepts ==
    /\ IF nconnects' # nconnects
       THEN peer_out' = <<>> /\ peer_msgs' = 0
       ELSE UNCHANGED peerVars
    /\ UNCHANGED <<hostVars, guestVars>>

\* values of the keyframe-interval property: periodic keyframes off, or
\* every second frame
KeyframeIntervals == {0, 2}

ClientInit ==
    /\ connected = FALSE
    /\ socket_fd = -1
    /\ pending_frame = NULL
    /\ frame_count = 0
    /\ running = FALSE
    /\ info = [width |-> 1920, height |-> 1080, stride |-> 1920]
    /\ keyframe_interval \in KeyframeIntervals
    /\ socket_path = NULL
    /\ tcp_host = NULL
    /\ tcp_port = DEFAULT_TCP_PORT
    /\ cid = DEFAULT_CID
    /\ port = DEFAULT_PORT
    /\ reading = NoRead
    /\ bridge = NewBridge
    /\ pc = "idle"
    /\ cur = [frame |-> NULL,
              in |-> [resource_id |-> 0, force |-> FALSE, map_ok |-> FALSE]]
    /\ open_fds = {}
    /\ nconnects = 0
    /\ nframes = 0
    /\ finished = [f \in Frames |-> 0]
    /\ requests = [f \in Frames |-> 0]
    /\ call = NoCall
    /\ c2h = <<>>
    /\ h2c = <<>>
    /\ h2c_eof = FALSE
    /\ c2h_eof = FALSE

\* the calls the framework makes, with every input and I/O outcome
handle_frame == \E in \in FrameInputs, conn_ok \in BOOLEAN :
                    gst_vsockenc_handle_frame(in, conn_ok)
handle_frame_send == \E wf \in FixedWrites, wp \in PixelWrites :
                         HandleFrameSend(wf, wp)
set_format == \E i \in VideoInfos : gst_vsockenc_set_format(i)

Init ==
    /\ ClientInit
    /\ HostInit
    /\ peer_out = <<>>
    /\ peer_msgs = 0
    /\ guest_msgs = 0

PeerInit == Init

\* Nothing in this system depends on the bytes the peer has not read yet, so
\* reading them commutes with every other step: the peer reads first.
PeerNext ==
    \/ c2h = <<>> /\ gst_vsockenc_start /\ PeerAccepts
    \/ c2h = <<>> /\ handle_frame /\ PeerAccepts
    \/ c2h = <<>> /\ HandleFrameDrain /\ PeerAccepts
    \/ c2h = <<>> /\ handle_frame_send /\ PeerAccepts
    \/ c2h = <<>> /\ gst_vsockenc_stop /\ PeerAccepts
    \/ c2h = <<>> /\ StopDrain /\ PeerAccepts
    \/ c2h = <<>> /\ \E m \in PeerMessages : \E cut \in PeerCuts(m) : PeerWrite(m, cut)
    \/ c2h = <<>> /\ PeerFlush
    \/ c2h = <<>> /\ PeerClose
    \/ PeerRead

SpecPeer == PeerInit /\ [][PeerNext]_vars

(***************************************************************************)
(* SpecFraming: the client against a peer whose headers announce payloads  *)
(* longer than the body their type has, each message written whole.        *)
(***************************************************************************)
\* bytes a peer adds behind the body of a message, counted in payload_size
PaddingBytes == 3

\* message m with pad bytes more of payload, announced in its header
Padded(m, pad) ==
    LET h == DecodeHeader(Take(m, HeaderSize))
    IN EncodeHeader([h EXCEPT !.payload_size = h.payload_size + pad])
       \o Drop(m, HeaderSize) \o Zeros(pad)

FramingMessages ==
    PeerMessages
    \cup {Padded(PeerError(HELIX_ERR_RESOURCE_NOT_FOUND), PaddingBytes)}
    \cup {Padded(PeerFrameResponse(r.pts, r.dts, r.is_keyframe, r.nals),
                 PaddingBytes) : r \in {q \in PeerFrames : q.pts = 1}}

FramingInit == Init /\ keyframe_interval = 0

FramingNext ==
    \/ c2h = <<>> /\ gst_vsockenc_start /\ PeerAccepts
    \/ c2h = <<>> /\ handle_frame /\ PeerAccepts
    \/ c2h = <<>> /\ HandleFrameDrain /\ PeerAccepts
    \/ c2h = <<>> /\ handle_frame_send /\ PeerAccepts
    \/ c2h = <<>> /\ gst_vsockenc_stop /\ PeerAccepts
    \/ c2h = <<>> /\ StopDrain /\ PeerAccepts
    \/ c2h = <<>> /\ \E m \in FramingMessages : PeerWrite(m, Len(m))
    \/ c2h = <<>> /\ PeerClose
    \/ PeerRead

SpecFraming == FramingInit /\ [][FramingNext]_vars

(***************************************************************************)
(* SpecConnect: the client with its connection properties set by the       *)
(* application, against a peer that accepts, reads and closes.             *)
(***************************************************************************)
\* a socket path and a TCP host an application sets (names of the strings)
SomeSocketPath == 1
SomeTcpHost == 2
OtherTcpPort == 8080
OtherCid == 3
OtherPort == 5001

\* gst_vsockenc_set_property for the five connection properties
gst_vsockenc_set_property(prop, value) ==
    /\ pc = "idle"
    /\ socket_path' = IF prop = "socket-path" THEN value ELSE socket_path
    /\ cid' = IF prop = "cid" THEN value ELSE cid
    /\ port' = IF prop = "port" THEN value ELSE port
    /\ tcp_host' = IF prop = "tcp-host" THEN value ELSE tcp_host
    /\ tcp_port' = IF prop = "tcp-port" THEN value ELSE tcp_port
    /\ UNCHANGED <<connected, socket_fd, pending_frame, frame_count, running,
                   info, keyframe_interval, reading, bridge, pc, cur, open_fds,
                   nconnects,
                   nframes, finished, requests, call, streamVars>>

\* the values the application gives a property
PropertyValues(prop) ==
    IF prop = "socket-path" THEN {NULL, SomeSocketPath}
    ELSE IF prop = "cid" THEN {DEFAULT_CID, OtherCid}
    ELSE IF prop = "port" THEN {DEFAULT_PORT, OtherPort}
    ELSE IF prop = "tcp-host" THEN {NULL, SomeTcpHost}
    ELSE {DEFAULT_TCP_PORT, OtherTcpPort}

set_property ==
    \E prop \in {"socket-path", "cid", "port", "tcp-host", "tcp-port"} :
        \E value \in PropertyValues(prop) :
            /\ value # (CASE prop = "socket-path" -> socket_path
                          [] prop = "cid" -> cid
                          [] prop = "port" -> port
                          [] prop = "tcp-host" -> tcp_host
                          [] OTHER -> tcp_port)
            /\ gst_vsockenc_set_property(prop, value)

ConnectInit == Init /\ keyframe_interval = 0

ConnectNext ==
    \/ c2h = <<>> /\ set_property /\ PeerAccepts
    \/ c2h = <<>> /\ gst_vsockenc_start /\ PeerAccepts
    \/ c2h = <<>> /\ handle_frame /\ PeerAccepts
    \/ c2h = <<>> /\ HandleFrameDrain /\ PeerAccepts
    \/ c2h = <<>> /\ handle_frame_send /\ PeerAccepts
    \/ c2h = <<>> /\ gst_vsockenc_stop /\ PeerAccepts
    \/ c2h = <<>> /\ StopDrain /\ PeerAccepts
    \/ c2h = <<>> /\ PeerClose
    \/ PeerRead

SpecConnect == ConnectInit /\ [][ConnectNext]_vars

(***************************************************************************)
(* SpecRead: read_exact followed read by read on a connected socket whose  *)
(* peer writes in pieces and closes.                                       *)
(***************************************************************************)
MaxReadBytes == 4
MaxStreamBytes == 6
MaxInterrupts == 2
MaxReadCalls == 2
MaxWriteBytes == 3

\* byte i of the stream the peer writes
StreamByte(i) == i % 256

\* what read(fd, buf + total, want) may return: some of the bytes that are
\* there, at most want of them; 0 at the end of the stream; -1 with errno
\* EINTR or another error
ReadResults(want) ==
    {[r |-> k, errno |-> "none"] :
        k \in 1..(IF want < Len(h2c) THEN want ELSE Len(h2c))}
    \cup (IF h2c = <<>> /\ h2c_eof THEN {[r |-> 0, errno |-> "none"]} ELSE {})
    \cup {[r |-> -1, errno |-> "EINTR"], [r |-> -1, errno |-> "ECONNRESET"]}

\* a loop body that returns TRUE after the first read that brought bytes
read_exact_body_NoLoop(s, res) ==
    IF res.r <= 0
    THEN IF res.r < 0 /\ res.errno = "EINTR"
         THEN [s EXCEPT !.last = "EINTR", !.interrupts = s.interrupts + 1,
                        !.reads = s.reads + 1]
         ELSE [s EXCEPT !.at = "done", !.ret = "FALSE", !.reads = s.reads + 1,
                        !.last = IF res.r = 0 THEN "eof" ELSE "error"]
    ELSE [s EXCEPT !.total = s.total + res.r,
                   !.buf = s.buf \o Take(h2c, res.r),
                   !.taken = s.taken + res.r, !.reads = s.reads + 1,
                   !.last = "bytes", !.at = "done", !.ret = "TRUE"]

\* the body of read_exact's loop for one result of read()
read_exact_body(s, res) ==
    IF res.r <= 0
    THEN IF res.r < 0 /\ res.errno = "EINTR"
         THEN [s EXCEPT !.last = "EINTR", !.interrupts = s.interrupts + 1,
                        !.reads = s.reads + 1]
         ELSE [s EXCEPT !.at = "done", !.ret = "FALSE", !.reads = s.reads + 1,
                        !.last = IF res.r = 0 THEN "eof" ELSE "error"]
    ELSE [s EXCEPT !.total = s.total + res.r,
                   !.buf = s.buf \o Take(h2c, res.r),
                   !.taken = s.taken + res.r, !.reads = s.reads + 1,
                   !.last = "bytes"]

ReadUnchanged ==
    UNCHANGED <<connected, socket_fd, pending_frame, frame_count, running, info,
                keyframe_interval, addrVars, bridge, pc, cur, open_fds, nconnects,
                nframes, finished, requests, call, c2h, c2h_eof, h2c_eof,
                peerVars, hostVars, guestVars>>

\* a call read_exact(socket_fd, buf, n)
ReadCall(n) ==
    /\ reading.at \in {"none", "done"}
    /\ reading.calls < MaxReadCalls
    /\ reading' = [NoRead EXCEPT !.at = "loop", !.n = n, !.start = reading.taken,
                            !.taken = reading.taken, !.calls = reading.calls + 1]
    /\ h2c' = h2c
    /\ ReadUnchanged

\* while (total < n) is false: return TRUE
ReadReturn ==
    /\ reading.at = "loop"
    /\ ~(reading.total < reading.n)
    /\ reading' = [reading EXCEPT !.at = "done", !.ret = "TRUE"]
    /\ h2c' = h2c
    /\ ReadUnchanged

\* while (total < n) is true: one read() and the rest of the body
ReadRead ==
    /\ reading.at = "loop"
    /\ reading.total < reading.n
    /\ \E res \in ReadResults(reading.n - reading.total) :
          /\ res.errno = "EINTR" => reading.interrupts < MaxInterrupts
          /\ reading' = read_exact_body(reading, res)
          /\ h2c' = IF res.r > 0 THEN Drop(h2c, res.r) ELSE h2c
    /\ ReadUnchanged

\* the peer writes the next k bytes of its stream
ReadPeerWrite(k) ==
    /\ ~h2c_eof
    /\ reading.taken + Len(h2c) + k <= MaxStreamBytes
    /\ h2c' = h2c \o [i \in 1..k |-> StreamByte(reading.taken + Len(h2c) + i)]
    /\ UNCHANGED <<clientVars, c2h, h2c_eof, c2h_eof, peerVars, hostVars,
                   guestVars>>

\* the client after a successful gst_vsockenc_connect
ReadInit ==
    /\ connected = TRUE
    /\ socket_fd = 1
    /\ open_fds = {1}
    /\ nconnects = 1
    /\ running = TRUE
    /\ pending_frame = NULL
    /\ frame_count = 0
    /\ info = [width |-> 1920, height |-> 1080, stride |-> 1920]
    /\ keyframe_interval = 0
    /\ socket_path = NULL
    /\ tcp_host = NULL
    /\ tcp_port = DEFAULT_TCP_PORT
    /\ cid = DEFAULT_CID
    /\ port = DEFAULT_PORT
    /\ reading = NoRead
    /\ bridge = NewBridge
    /\ pc = "idle"
    /\ cur = [frame |-> NULL,
              in |-> [resource_id |-> 0, force |-> FALSE, map_ok |-> FALSE]]
    /\ nframes = 0
    /\ finished = [f \in Frames |-> 0]
    /\ requests = [f \in Frames |-> 0]
    /\ call = NoCall
    /\ c2h = <<>>
    /\ h2c = <<>>
    /\ h2c_eof = FALSE
    /\ c2h_eof = FALSE
    /\ HostInit
    /\ peer_out = <<>>
    /\ peer_msgs = 0
    /\ guest_msgs = 0

ReadNext ==
    \/ \E n \in 0..MaxReadBytes : ReadCall(n)
    \/ ReadReturn
    \/ ReadRead
    \/ \E k \in 1..MaxWriteBytes : ReadPeerWrite(k)
    \/ PeerClose

SpecRead == ReadInit /\ [][ReadNext]_vars

(***************************************************************************)
(* SpecHost: the host serving an arbitrary guest that writes well-formed   *)
(* messages, over a transport that segments them.                          *)
(***************************************************************************)
MaxGuestMsgs == 2

\* a HelixFrameRequest as a guest sends it, with n inline pixel bytes
GuestFrameRequest(resource_id, i, pts, force, n) ==
    EncodeFrameRequest(
        [header |-> [magic |-> HELIX_MSG_MAGIC, msg_type |-> HELIX_MSG_FRAME_REQUEST,
                     flags |-> IF n > 0 THEN HELIX_FLAG_PIXEL_DATA ELSE 0,
                     session_id |-> DefaultSessionId,
                     payload_size |-> (FrameRequestSize - HeaderSize) + n],
         resource_id |-> resource_id, width |-> i.width, height |-> i.height,
         format |-> HELIX_FORMAT_NV12, stride |-> i.stride, pts |-> pts,
         duration |-> 1, force_keyframe |-> IF force THEN 1 ELSE 0])
        \o Take(PixelData, n)

\* the messages the guest may send as its k-th
GuestMessages(k) ==
    {GuestFrameRequest(42, i, k, FALSE, 0) : i \in VideoInfos}
        \cup {GuestFrameRequest(0, CHOOSE i \in VideoInfos : i.width = 1920,
                                k, TRUE, PixelBytes),
              EncodeHeader([magic |-> HELIX_MSG_MAGIC, msg_type |-> HELIX_MSG_PING,
                            flags |-> 0, session_id |-> DefaultSessionId,
                            payload_size |-> 0])}

GuestWrite(m) ==
    /\ ~c2h_eof
    /\ guest_msgs < MaxGuestMsgs
    /\ guest_msgs' = guest_msgs + 1
    /\ c2h' = c2h \o m
    /\ c2h_marks' = Append(c2h_marks, Len(m))
    /\ UNCHANGED <<clientVars, h2c, h2c_eof, c2h_eof, peerVars, hostVars, c2h_off>>

\* the guest closes its end
GuestClose ==
    /\ ~c2h_eof
    /\ c2h_eof' = TRUE
    /\ UNCHANGED <<clientVars, c2h, h2c, h2c_eof, peerVars, hostVars, guestVars>>

\* the guest reads what the host wrote
GuestRead ==
    /\ h2c # <<>>
    /\ h2c' = <<>>
    /\ UNCHANGED <<clientVars, c2h, h2c_eof, c2h_eof, peerVars, hostVars, guestVars>>

vsock_server_thread ==
    \E n \in RecvSizes(c2h), env \in HostEnvs, whole \in BOOLEAN :
        HostDispatch(n, env, whole)
encoder_callback ==
    \E outcome \in EncoderOutcomes, whole \in BOOLEAN :
        encoder_output_callback(outcome, whole)

\* Nothing the host does depends on the bytes the guest has not read yet:
\* the guest reads first.
HostNext ==
    \/ h2c = <<>> /\ \E m \in GuestMessages(guest_msgs + 1) : GuestWrite(m)
    \/ h2c = <<>> /\ GuestClose
    \/ h2c = <<>> /\ vsock_server_thread
    \/ h2c = <<>> /\ HostSendRest
    \/ h2c = <<>> /\ HostRecvEof
    \/ h2c = <<>> /\ encoder_callback
    \/ h2c = <<>> /\ CallbackSendRest
    \/ GuestRead

SpecHost == Init /\ [][HostNext]_vars

(***************************************************************************)
(* SpecSend: the host serving a guest that writes whole messages and does  *)
(* not read, with sends that may return after a part was transferred.      *)
(***************************************************************************)
\* send() in vsock_server_thread or helix_frame_export_process_msg returns
\* the count of the part transferred: the rest is never sent
HostSendShort ==
    /\ host_sending # <<>>
    /\ host_sending' = <<>>
    /\ UNCHANGED <<clientVars, streamVars, peerVars, fe, vt_live, vt_created,
                   enc_jobs, host_pc, cb_sending, disp, dispatched, answered,
                   interleaved, guestVars>>

\* send() in encoder_output_callback returns the count of the part
\* transferred, which is what bytes_sent grows by: the rest is never sent
CallbackSendShort ==
    /\ cb_sending # <<>>
    /\ cb_sending' = <<>>
    /\ fe' = [fe EXCEPT !.bytes_sent = @ - Len(cb_sending)]
    /\ UNCHANGED <<clientVars, streamVars, peerVars, vt_live, vt_created,
                   enc_jobs, host_pc, host_sending, disp, dispatched, answered,
                   interleaved, guestVars>>

send_dispatch_thread ==
    \E env \in HostEnvs, whole \in BOOLEAN : HostDispatch(Len(c2h), env, whole)

SendNext ==
    \/ c2h = <<>> /\ \E m \in GuestMessages(guest_msgs + 1) : GuestWrite(m)
    \/ GuestClose
    \/ send_dispatch_thread
    \/ HostSendShort
    \/ HostRecvEof
    \/ \E errno \in RecvErrors : HostRecvFails(errno)
    \/ encoder_callback
    \/ CallbackSendShort

SpecSend == Init /\ [][SendNext]_vars

(***************************************************************************)
(* Spec: the client element connected to the host.                         *)
(***************************************************************************)
\* what a step of the client means to the host: a new connection is served
\* by a new context, and each write of the client is one message sent
HostServes ==
    /\ IF nconnects' # nconnects
       THEN /\ fe' = NewFrameExport
            /\ vt_live' = {}
            /\ vt_created' = 0
            /\ enc_jobs' = <<>>
            /\ host_pc' = "recv"
            /\ host_sending' = <<>>
            /\ cb_sending' = <<>>
            /\ disp' = NoDispatch
            /\ dispatched' = <<>>
            /\ answered' = <<>>
            /\ interleaved' = FALSE
            /\ c2h_marks' = <<>>
            /\ c2h_off' = 0
       ELSE /\ UNCHANGED hostVars
            /\ c2h_marks' = IF Len(c2h') > Len(c2h)
                            THEN Append(c2h_marks, Len(c2h') - Len(c2h))
                            ELSE c2h_marks
            /\ UNCHANGED c2h_off
    /\ UNCHANGED <<peerVars, guest_msgs>>

\* The transport of Spec hands the host each write of the client as it is
\* made, and each send of the host goes out whole; segmented and coalesced
\* reads and overtaken sends are those of SpecHost.
dispatch_thread == \E env \in HostEnvs : HostDispatch(Len(c2h), env, TRUE)
completion_callback ==
    \E outcome \in EncoderOutcomes : encoder_output_callback(outcome, TRUE)

Next ==
    \/ c2h = <<>> /\ gst_vsockenc_start /\ HostServes
    \/ c2h = <<>> /\ set_format /\ HostServes
    \/ c2h = <<>> /\ handle_frame /\ HostServes
    \/ c2h = <<>> /\ HandleFrameDrain /\ HostServes
    \/ c2h = <<>> /\ handle_frame_send /\ HostServes
    \/ c2h = <<>> /\ gst_vsockenc_stop /\ HostServes
    \/ c2h = <<>> /\ StopDrain /\ HostServes
    \/ dispatch_thread
    \/ HostRecvEof
    \/ completion_callback

Spec == Init /\ [][Next]_vars

(***************************************************************************)
(* SpecControl: the host and a guest that also sends the control messages  *)
(* and malformed ones; every message is received whole before the next is  *)
(* sent, and every send of the host goes out whole.                        *)
(***************************************************************************)
MaxControlMsgs == 3
\* the session id the guest puts in its Ping
PingSessionId == 7
\* the bitrate of the guest's ConfigRequest
ConfigBitrate == 5000000

GuestHeader(magic, type, session_id, payload_size) ==
    EncodeHeader([magic |-> magic, msg_type |-> type, flags |-> 0,
                  session_id |-> session_id, payload_size |-> payload_size])

\* a frame size whose pixel count times four is 2^31
HugeInfo == [width |-> 32768, height |-> 16384, stride |-> 32768]

\* a HelixConfigRequest as a guest sends it
GuestConfigRequest(i, bitrate, realtime) ==
    EncodeConfigRequest(
        [header |-> [magic |-> HELIX_MSG_MAGIC, msg_type |-> HELIX_MSG_CONFIG_REQ,
                     flags |-> 0, session_id |-> DefaultSessionId,
                     payload_size |-> ConfigRequestSize - HeaderSize],
         width |-> i.width, height |-> i.height, bitrate |-> bitrate,
         framerate_num |-> 60, framerate_den |-> 1, profile |-> 100,
         level |-> 40, realtime |-> realtime])

\* the messages the guest may send as its k-th: a ConfigRequest, a
\* FrameRequest of either resolution and of a huge one, a KeyframeRequest, a
\* Ping, and the
\* malformed ones: less than a header, a wrong magic, a FrameRequest and a
\* ConfigRequest one byte short
ControlMessages(k) ==
    LET hd == CHOOSE i \in VideoInfos : i.width = 1920
    IN {GuestConfigRequest(hd, ConfigBitrate, 0)}
       \cup {GuestFrameRequest(42, i, k, FALSE, 0) : i \in VideoInfos \cup {HugeInfo}}
       \cup {GuestHeader(HELIX_MSG_MAGIC, HELIX_MSG_KEYFRAME_REQ, DefaultSessionId, 0),
             GuestHeader(HELIX_MSG_MAGIC, HELIX_MSG_PING, PingSessionId, 0),
             Take(GuestHeader(HELIX_MSG_MAGIC, HELIX_MSG_PING, PingSessionId, 0),
                  HeaderSize - 1),
             GuestHeader(0, HELIX_MSG_PING, DefaultSessionId, 0),
             Take(GuestFrameRequest(42, hd, k, FALSE, 0), FrameRequestSize - 1),
             Take(GuestConfigRequest(hd, ConfigBitrate, 0), ConfigRequestSize - 1)}

ControlWrite(m) ==
    /\ ~c2h_eof
    /\ c2h = <<>>
    /\ guest_msgs < MaxControlMsgs
    /\ guest_msgs' = guest_msgs + 1
    /\ c2h' = m
    /\ c2h_marks' = Append(c2h_marks, Len(m))
    /\ UNCHANGED <<clientVars, h2c, h2c_eof, c2h_eof, peerVars, hostVars, c2h_off>>

\* the client element takes no part; its properties are fixed
ControlInit == Init /\ keyframe_interval = 2

ControlNext ==
    \/ h2c = <<>> /\ \E m \in ControlMessages(guest_msgs + 1) : ControlWrite(m)
    \/ h2c = <<>> /\ GuestClose
    \/ h2c = <<>> /\ dispatch_thread
    \/ h2c = <<>> /\ HostRecvEof
    \/ h2c = <<>> /\ completion_callback
    \/ GuestRead

SpecControl == ControlInit /\ [][ControlNext]_vars

(***************************************************************************)
(* Claims about the client.                                                *)
(***************************************************************************)
\* C1: pipelining invariant. Whenever handle_frame has reached the write of
\* its FrameRequest, the pending slot is empty; if a frame N was in the slot
\* when the call was entered, N has been finished by a drain of this call, and
\* the drain was attempted without blocking first and blocking only after that.
C1_PipeliningInvariant ==
    pc = "send" =>
        /\ pending_frame = NULL
        /\ call.entry_pending # NULL =>
              /\ call.drained = call.entry_pending
              /\ finished[call.entry_pending] >= 1
              /\ call.attempts \in {<<"nb">>, <<"nb", "b">>}
\* C1 witness: a call entered with a frame pending found no data at its poll,
\* blocked, drained the frame and is about to write the next request
C1_Witness ==
    /\ pc = "send"
    /\ call.entry_pending # NULL
    /\ call.attempts = <<"nb", "b">>
    /\ call.drain = "frame"

\* C2: drain on shutdown. When stop has returned, the pending slot is empty,
\* and a frame that was in the slot when stop was called has been finished.
C2_StopDrainsPending ==
    (call.op = "stop" /\ call.ret = "ok") =>
        /\ pending_frame = NULL
        /\ call.entry_pending # NULL => finished[call.entry_pending] >= 1

\* C3: a response header with a wrong magic marks the connection Disconnected
\* and discards the pending frame with no output.
C3_BadMagicDisconnects ==
    (call.drain = "bad_magic" /\ pc \in {"send", "idle"} /\ call.write = "none") =>
        /\ ~connected
        /\ pending_frame = NULL
        /\ ~call.out.attached

\* C4: a failed or short write of the FrameRequest marks the connection
\* Disconnected and fails the submission.
C4_WriteFailureDisconnects ==
    (call.op = "handle_frame"
        /\ call.write \in {"fixed_fail", "fixed_short", "pixel_fail"}) =>
        /\ ~connected
        /\ call.ret = "error"

\* C5: every failed read of the response drain marks the connection
\* Disconnected.
C5_ReadFailureDisconnects ==
    (call.drain \in ReadFailures /\ call.write = "none") => ~connected

\* the messages of the peer whose type the drain does not handle
UnhandledMessages ==
    {m \in PeerMessages :
        /\ DecodeHeader(m).magic = HELIX_MSG_MAGIC
        /\ DecodeHeader(m).msg_type \notin {HELIX_MSG_FRAME_RESPONSE, HELIX_MSG_ERROR}}
\* the unread stream starts at the first byte of a message
StreamOnBoundary == \E m \in PeerMessages : h2c = Take(m, Len(h2c))

\* C11: a drain that read a well-formed header of a type other than
\* FrameResponse and Error has consumed the header and exactly payload_size
\* more bytes and finished the pending frame with no output; the stream it
\* leaves starts at the first byte of the peer's next message, so that a
\* FrameResponse that follows is parsed from its header.
C11_SkipResyncs ==
    call.drain = "skipped" =>
        /\ ~call.out.attached
        /\ call.drained = call.entry_pending
        /\ \E m \in UnhandledMessages :
              call.consumed = HeaderSize + DecodeHeader(m).payload_size
        /\ call.write = "none" =>
              /\ pending_frame = NULL
              /\ StreamOnBoundary
              /\ (\E m \in PeerMessages :
                      /\ h2c = m
                      /\ DecodeHeader(m).magic = HELIX_MSG_MAGIC
                      /\ DecodeHeader(m).msg_type = HELIX_MSG_FRAME_RESPONSE) =>
                        /\ FinishPendingReads(h2c, FALSE).kind = "frame"
                        /\ FinishPendingReads(h2c, FALSE).consumed = Len(h2c)
\* C11 witness: the drain skipped a message with a payload, and the whole
\* FrameResponse the peer wrote after it is what the stream holds
C11_Witness ==
    /\ call.drain = "skipped"
    /\ call.consumed > HeaderSize
    /\ call.write = "none"
    /\ pc = "send"
    /\ FinishPendingReads(h2c, FALSE).kind = "frame"
    /\ FinishPendingReads(h2c, FALSE).consumed = Len(h2c)

(***************************************************************************)
(* Claims about the host.                                                  *)
(***************************************************************************)
\* C6: every well-framed FrameRequest the host has dispatched is answered by
\* a FrameResponse or an ErrorResponse. As a state property: while the guest
\* still has the connection open and no send of the host is under way, each
\* FrameRequest dispatched on a message boundary has its answer on the
\* transport or is still in the encoder, from where its answer can yet come.
C6_EveryRequestAnswered ==
    (~c2h_eof /\ host_sending = <<>> /\ cb_sending = <<>>) =>
        \A i \in DOMAIN dispatched :
            dispatched[i].aligned =>
                \/ \E j \in DOMAIN answered : answered[j].pts = dispatched[i].pts
                \/ \E j \in DOMAIN enc_jobs : enc_jobs[j].pts = dispatched[i].pts

\* C7: the sends of the dispatch thread and of the completion callback are
\* serialized: no thread puts bytes on the socket while a message of the
\* other is only partly on it.
C7_WritesSerialized == ~interleaved

\* C8: every dispatch of the host covers exactly one message the guest
\* wrote, from its first byte to its last.
C8_DispatchOnBoundaries == disp.type # "none" => disp.aligned

\* C9: a FrameRequest configures the encoder exactly when there is no
\* configured encoder session or its width or height differ from the
\* configured ones, and a FrameRequest that follows one of the same
\* resolution configures nothing.
C9_ConfiguresOncePerResolution ==
    [][dispatched' # dispatched =>
          /\ (disp'.configure # "none") <=>
                 \/ ~fe.configured
                 \/ fe.encoder_session = NULL
                 \/ fe.width # disp'.width
                 \/ fe.height # disp'.height
          /\ (disp.type = "frame" /\ disp.width = disp'.width
                 /\ disp.height = disp'.height) => disp'.configure = "none"]_vars

(***************************************************************************)
(* Claims about the client and the host together.                          *)
(***************************************************************************)
\* C10: when the resource of a FrameRequest cannot be resolved, the dispatch
\* returns ResourceNotFound, submits nothing to the encoder and sends one
\* ErrorResponse carrying that code; a handle_frame whose drain read an Error
\* message has emptied the slot with no output attached and is still
\* connected when it writes, and its write, when it succeeds, leaves its own
\* frame pending.
C10_ResourceNotFound ==
    /\ disp.lookup = "not_found" =>
          /\ disp.ret = HELIX_ERR_RESOURCE_NOT_FOUND
          /\ ~disp.submitted
          /\ disp.wrote \in {"error", "failed"}
          /\ disp.wrote = "error" =>
                /\ disp.out_len = ErrorResponseSize
                /\ disp.out_type = HELIX_MSG_ERROR
                /\ disp.out_code = HELIX_ERR_RESOURCE_NOT_FOUND
    /\ (call.op = "handle_frame" /\ call.drain = "error") =>
          /\ ~call.out.attached
          /\ call.drained = call.entry_pending
          /\ pc = "send" => (pending_frame = NULL /\ connected)
          /\ call.write # "none" => call.wrote_connected
          /\ call.write = "ok" =>
                (pending_frame = call.frame /\ connected /\ call.ret = "ok")
\* C10 witness: the host answered the FrameRequest of a frame with
\* ErrorResponse(ResourceNotFound), the next handle_frame drained that Error
\* and has written its own request, which the host has not read yet
C10_Witness ==
    /\ call.op = "handle_frame"
    /\ call.drain = "error"
    /\ call.write = "ok"
    /\ pending_frame = call.frame
    /\ c2h # <<>>
    /\ disp.lookup = "not_found"
    /\ disp.wrote = "error"
    /\ disp.pts = PtsOf(call.drained)

\* C13: when the client drains a complete FrameResponse, the frame that was
\* pending gets as output the nal_count NAL payloads in wire order, exactly
\* nal_count (size, bytes) records having been read; it is a sync point iff
\* is_keyframe is non-zero; its decode timestamp is the response's dts; and
\* the slot is empty when the drain returns.
C13_FrameResponseDrained ==
    call.drain = "frame" =>
        /\ call.drained = call.entry_pending
        /\ call.drained # NULL
        /\ finished[call.drained] >= 1
        /\ call.out.attached
        /\ \E r \in PeerFrames :
              /\ call.drain_pts = r.pts
              /\ call.out.nals = r.nals
              /\ call.out.sync = (r.is_keyframe # 0)
              /\ call.out.dts = r.dts
              /\ call.consumed
                    = Len(PeerFrameResponse(r.pts, r.dts, r.is_keyframe, r.nals))
        /\ call.write = "none" => pending_frame = NULL

\* C13 witness: a response of two NAL units, not a keyframe, and a response
\* whose is_keyframe byte is 2 can both be drained; this is the first
C13_Witness ==
    /\ call.drain = "frame"
    /\ Len(call.out.nals) = 2
    /\ ~call.out.sync
    /\ call.out.dts = 12
    /\ call.write = "none"
    /\ pending_frame = NULL

\* C14: the client never retries a failed frame. For every frame at most one
\* FrameRequest is ever written; a frame whose drain ends in a failure path
\* (read failure, bad magic, Error message, unexpected type, truncated NAL
\* records) is finished with no output attached, its request is not written
\* again, and the handle_frame call that drained it goes on to send the
\* frame it was given.
C14_NoRetry ==
    /\ \A f \in Frames : requests[f] <= 1
    /\ call.drain \in DrainFailures =>
           /\ call.drained # NULL
           /\ call.drained = call.entry_pending
           /\ finished[call.drained] >= 1
           /\ call.out = NoOutput
           /\ requests[call.drained] = 1
           /\ pending_frame # call.drained
           /\ (call.op = "handle_frame" /\ call.write = "none") =>
                  /\ pc = "send"
                  /\ pending_frame = NULL
                  /\ cur.frame = call.frame
                  /\ cur.frame # call.drained
                  /\ requests[cur.frame] = 0

\* C14 witness: frame 1 was dropped on truncated NAL records, frame 2 on an
\* Error message, and frame 3 has been accepted and sent
C14_Witness ==
    /\ call.op = "handle_frame"
    /\ call.drain = "error"
    /\ call.drained = 2
    /\ call.write = "ok"
    /\ pending_frame = 3
    /\ requests = [f \in Frames |-> 1]
    /\ finished[1] = 1

\* C15: lazy connect. start performs no connect; only the entry of a
\* handle_frame call connects, it does so exactly when the client is
\* Disconnected, once, and before the call reads or writes anything; when the
\* attempt fails the call returns an error having written nothing, with the
\* pending slot and the frame counter as they were, and the client is still
\* Disconnected, so that the next handle_frame call attempts again.
C15_LazyConnect ==
    /\ [](call.op = "start" => call.connect = "none")
    /\ []((call.connect = "fail" /\ pc = "idle") =>
              (~connected /\ call.ret = "error" /\ call.write = "none"
                 /\ call.drain = "none"))
    /\ [][ /\ nconnects' # nconnects =>
                 (pc = "idle" /\ call'.op = "handle_frame" /\ nframes' = nframes + 1)
           /\ (pc = "idle" /\ nframes' = nframes + 1) =>
                 /\ call'.op = "handle_frame"
                 /\ (call'.connect # "none") = ~connected
                 /\ call'.connect = "ok" =>
                        (nconnects' = nconnects + 1 /\ connected' /\ c2h' = <<>>)
                 /\ call'.connect # "ok" => nconnects' = nconnects
                 /\ call'.drain = "none" /\ call'.write = "none"
                 /\ call'.connect # "ok" => (c2h' = c2h /\ h2c' = h2c)
                 /\ requests' = requests
                 /\ call'.connect = "fail" =>
                        /\ pc' = "idle"
                        /\ call'.ret = "error"
                        /\ connected' = connected
                        /\ pending_frame' = pending_frame
                        /\ frame_count' = frame_count
                        /\ socket_fd' = -1
          ]_vars

\* C15 witness: the connect of the call for frame 1 failed, with nothing
\* written, and the call for frame 2 has connected
C15_Witness ==
    /\ call.op = "handle_frame"
    /\ call.frame = 2
    /\ call.connect = "ok"
    /\ nconnects = 1
    /\ requests[1] = 0
    /\ connected

\* C16: once the FrameRequest of the current frame is written, the frame is
\* stored in the pending slot and the call returns without reading from the
\* socket. The frame a handle_frame call drains is never the frame the call
\* was given; frames are finished, and bytes taken from a connection's
\* stream, only by the drain steps of handle_frame, which come before its
\* write, and of stop.
C16_ReturnsWithoutReading ==
    /\ []((call.op = "handle_frame" /\ call.drained # NULL) =>
              (call.drained # call.frame /\ call.drained = call.entry_pending))
    /\ [](call.drain # "none" => call.op \in {"handle_frame", "stop"})
    /\ [][ /\ (pc = "send" /\ pc' = "idle") =>
                 /\ h2c' = h2c
                 /\ h2c_eof' = h2c_eof
                 /\ finished' = finished
                 /\ call'.drain = call.drain
                 /\ call'.write = "ok" =>
                        /\ pending_frame' = cur.frame
                        /\ call'.ret = "ok"
                        /\ finished'[cur.frame] = 0
           /\ (finished' # finished
                  \/ (Len(h2c') < Len(h2c) /\ nconnects' = nconnects)) =>
                 /\ pc \in {"drain_nb", "drain_b", "stop_drain"}
                 /\ call.write = "none"
                 /\ pending_frame # cur.frame \/ call.op = "stop"
          ]_vars

\* C16 witness: the call for frame 2 has returned with frame 2 pending while
\* the whole response to it is unread on the socket; that call drained frame 1
C16_Witness ==
    /\ pc = "idle"
    /\ call.op = "handle_frame"
    /\ call.frame = 2
    /\ call.write = "ok"
    /\ call.drained = 1
    /\ pending_frame = 2
    /\ finished[2] = 0
    /\ FinishPendingReads(h2c, h2c_eof).kind = "frame"

\* C17: the first drain attempt of handle_frame never blocks. When its poll
\* found the socket readable, the reads that follow complete with what has
\* arrived, also when only a part of the response message has.
C17_FirstDrainNeverBlocks ==
    pc = "drain_nb" => FinishPendingReads(h2c, h2c_eof).kind # "block"

\* C18: frame_count is the number of frames sent successfully since start
\* (start sets it to 0, a send that succeeds adds one, a failed send and
\* every other step leave it), and the force_keyframe byte of every
\* FrameRequest written is 1 iff the caller requested a keyframe for the
\* frame or the keyframe interval is positive and that number is a multiple
\* of it: the first frame sent after start is a keyframe when the interval
\* is positive, and with interval 0 only requested keyframes are.
C18_ForceKeyframe ==
    [][ /\ (call'.op = "start" /\ call' # call) => frame_count' = 0
        /\ (pc = "send" /\ pc' = "idle") =>
              /\ frame_count' = IF call'.write = "ok" THEN frame_count + 1
                                ELSE frame_count
              /\ Len(c2h') >= FrameRequestSize =>
                    LET req == DecodeFrameRequest(Take(c2h', FrameRequestSize))
                    IN /\ req.force_keyframe \in {0, 1}
                       /\ (req.force_keyframe = 1) =
                             (cur.in.force
                                \/ (keyframe_interval > 0
                                      /\ frame_count % keyframe_interval = 0))
                       /\ (keyframe_interval > 0 /\ frame_count = 0) =>
                             req.force_keyframe = 1
                       /\ (keyframe_interval = 0 /\ ~cur.in.force) =>
                             req.force_keyframe = 0
        /\ ~(call'.op = "start" /\ call' # call) /\ ~(pc = "send" /\ pc' = "idle") =>
              frame_count' = frame_count
        /\ keyframe_interval' = keyframe_interval
      ]_vars

\* C18 witness: with interval 2, after a failed send of frame 1 and the
\* successful sends of frames 2 and 3, none with a keyframe requested, the
\* request of frame 2 was a keyframe and that of frame 3, just written, is not
C18_Witness ==
    /\ keyframe_interval = 2
    /\ pc = "idle"
    /\ call.op = "handle_frame"
    /\ call.frame = 3
    /\ call.write = "ok"
    /\ frame_count = 2
    /\ requests[1] = 0
    /\ ~cur.in.force
    /\ Len(c2h) >= FrameRequestSize
    /\ DecodeFrameRequest(Take(c2h, FrameRequestSize)).force_keyframe = 0

\* C19: every FrameRequest the client has written with resource_id = 0 has
\* the inline-pixel-data flag set and payload_size = 44 + the number of pixel
\* bytes of the buffer, and exactly that many pixel bytes follow its fixed
\* body on the wire; every other FrameRequest has the flag clear and
\* payload_size 44, and nothing follows it.
C19_InlinePixels ==
    (call.op = "handle_frame" /\ Len(c2h) >= FrameRequestSize) =>
        LET req == DecodeFrameRequest(Take(c2h, FrameRequestSize))
        IN IF req.resource_id = 0
           THEN /\ req.header.flags = HELIX_FLAG_PIXEL_DATA
                /\ req.header.payload_size
                      = (FrameRequestSize - HeaderSize) + Len(PixelData)
                /\ Drop(c2h, FrameRequestSize) = PixelData
           ELSE /\ req.header.flags = 0
                /\ req.header.payload_size = FrameRequestSize - HeaderSize
                /\ Len(c2h) = FrameRequestSize

(***************************************************************************)
(* Claims about the two ends together.                                     *)
(***************************************************************************)
\* C12: codec round trip across the two ends. A FrameResponse the host's
\* completion callback built and sent decodes on the client to the same pts,
\* dts, is_keyframe, nal_count and NAL bytes, and the client consumes
\* 12 + payload_size bytes for it; an ErrorResponse of the host is consumed
\* as 12 + payload_size bytes; and the FrameRequest the client has written
\* decodes on the host's layout to the field values the client built.
C12_CodecRoundTrip ==
    /\ call.drain = "frame" =>
           \E j \in DOMAIN answered :
               /\ answered[j].code = HELIX_ERR_OK
               /\ call.drain_pts = answered[j].pts
               /\ call.out.dts = answered[j].dts
               /\ call.out.sync = answered[j].is_keyframe
               /\ call.out.nals = answered[j].nals
               /\ Len(call.out.nals) = 1
               /\ call.consumed = HeaderSize + answered[j].payload_size
    /\ call.drain = "error" =>
           \E ret \in {HELIX_ERR_INVALID_MSG, HELIX_ERR_RESOURCE_NOT_FOUND,
                        HELIX_ERR_NO_IOSURFACE, HELIX_ERR_ENCODE_FAILED,
                        HELIX_ERR_NOT_CONFIGURED, HELIX_ERR_INTERNAL} :
               /\ call.consumed = Len(HostErrorResponse(fe, ret))
               /\ call.consumed = HeaderSize
                      + DecodeHeader(HostErrorResponse(fe, ret)).payload_size
    /\ (call.op = "handle_frame" /\ call.write = "ok" /\ c2h # <<>>) =>
           /\ Len(c2h) >= FrameRequestSize
           /\ DecodeFrameRequest(Take(c2h, FrameRequestSize))
                  = BuildFrameRequest(cur, frame_count - 1)
           /\ Len(c2h) = HeaderSize
                  + DecodeHeader(Take(c2h, HeaderSize)).payload_size

\* C12 witness: the client has decoded a keyframe response of the host, of
\* 12 + 29 bytes, whose dts differs from its pts
C12_Witness ==
    /\ call.drain = "frame"
    /\ call.out.sync
    /\ call.out.attached
    /\ call.out.dts # call.drain_pts
    /\ call.consumed = FrameResponseSize + 4 + 1
    /\ answered # <<>>

(***************************************************************************)
(* Claims about the host's dispatch loop.                                  *)
(***************************************************************************)
\* C20: whenever the dispatch of a message returns a code other than OK, the
\* dispatch thread writes back exactly one ErrorResponse, of 272 bytes, with
\* that code as error_code, the host's session id and payload_size 260, and
\* is then at its recv again; a dispatch that returns OK writes no
\* ErrorResponse.
C20_ErrorResponseWritten ==
    [][ Len(c2h') < Len(c2h) =>
          LET new == Drop(h2c', Len(h2c)) \o host_sending'
          IN /\ host_pc' = "recv"
             /\ (disp'.ret # HELIX_ERR_OK /\ ~c2h_eof) =>
                   /\ Len(new) = ErrorResponseSize
                   /\ DecodeHeader(Take(new, HeaderSize))
                         = [magic |-> HELIX_MSG_MAGIC, msg_type |-> HELIX_MSG_ERROR,
                            flags |-> 0, session_id |-> fe.session_id,
                            payload_size |-> 260]
                   /\ SDec(SubSeq(new, HeaderSize + 1, HeaderSize + 4)) = disp'.ret
                   /\ disp'.wrote = "error"
                   /\ disp'.out_code = disp'.ret
                   /\ fe'.session_id = fe.session_id
             /\ (disp'.ret # HELIX_ERR_OK /\ c2h_eof) =>
                   (disp'.wrote = "failed" /\ new = <<>>)
             /\ disp'.ret = HELIX_ERR_OK =>
                   (disp'.wrote \in {"none", "pong", "failed"}
                      /\ Len(new) \in {0, HeaderSize})
      ]_vars

\* C20 witness: a FrameRequest was answered with RESOURCE_NOT_FOUND, and the
\* loop went on to dispatch the next message, which it has answered with
\* INVALID_MSG
C20_Witness ==
    /\ \E j \in DOMAIN answered : answered[j].code = HELIX_ERR_RESOURCE_NOT_FOUND
    /\ disp.ret = HELIX_ERR_INVALID_MSG
    /\ disp.wrote = "error"
    /\ disp.out_len = ErrorResponseSize
    /\ disp.out_code = HELIX_ERR_INVALID_MSG
    /\ host_pc = "recv"

(***************************************************************************)
(* Claims about the host's message processing.                             *)
(***************************************************************************)
\* the bytes a dispatch step takes from the stream
Dispatching == Len(c2h') < Len(c2h)
Received == Take(c2h, Len(c2h) - Len(c2h'))
\* the encoder session state and what was handed to the encoder are as before
EncoderUntouched ==
    /\ fe'.configured = fe.configured
    /\ fe'.width = fe.width
    /\ fe'.height = fe.height
    /\ fe'.bitrate = fe.bitrate
    /\ fe'.realtime = fe.realtime
    /\ fe'.encoder_session = fe.encoder_session
    /\ vt_live' = vt_live
    /\ vt_created' = vt_created
    /\ enc_jobs' = enc_jobs

\* C21: host message decoding fails as a value. For an input shorter than a
\* header, a header with a wrong magic, a FrameRequest shorter than 56 bytes
\* and a ConfigRequest shorter than 40 bytes, the dispatch returns
\* INVALID_MSG, the encoder session state (configured, width, height,
\* bitrate, realtime, session) is unchanged and nothing is submitted to the
\* encoder.
C21_DecodeFailsAsValue ==
    [][ Dispatching =>
          LET data == Received
              malformed ==
                  IF Len(data) < HeaderSize THEN TRUE
                  ELSE LET header == DecodeHeader(Take(data, HeaderSize))
                       IN \/ header.magic # HELIX_MSG_MAGIC
                          \/ /\ header.msg_type = HELIX_MSG_FRAME_REQUEST
                             /\ Len(data) < FrameRequestSize
                          \/ /\ header.msg_type = HELIX_MSG_CONFIG_REQ
                             /\ Len(data) < ConfigRequestSize
          IN malformed =>
                /\ disp'.ret = HELIX_ERR_INVALID_MSG
                /\ disp'.type = "invalid"
                /\ disp'.why \in {"short", "magic", "frame_short", "config_short"}
                /\ ~disp'.submitted
                /\ EncoderUntouched
      ]_vars

\* C21 witness: with the encoder configured and a frame in it, a
\* ConfigRequest one byte short was refused
C21_Witness ==
    /\ disp.type = "invalid"
    /\ disp.why = "config_short"
    /\ disp.ret = HELIX_ERR_INVALID_MSG
    /\ fe.configured
    /\ fe.encoder_session # NULL
    /\ fe.bitrate # ConfigBitrate
    /\ enc_jobs # <<>>

\* C22: a received message whose magic does not match makes the connection
\* corrupted: once the host has dispatched one, it dispatches no further
\* bytes of that connection as a message.
C22_BadMagicDropsConnection ==
    [][ (disp.type = "invalid" /\ disp.why = "magic") => ~Dispatching ]_vars

\* C23: every invocation of the encoder's completion callback, while the
\* guest's end is open, is one of two: with a failure status it adds one to
\* encode_errors, writes no byte and leaves frames_encoded and bytes_sent
\* unchanged; with success it writes one FrameResponse with nal_count = 1
\* whose pts is the pts of the submitted frame.
C23_CallbackEffect ==
    [][ (Len(enc_jobs') < Len(enc_jobs) /\ ~c2h_eof) =>
          LET new == Drop(h2c', Len(h2c)) \o cb_sending'
          IN \/ /\ fe'.encode_errors = fe.encode_errors + 1
                /\ new = <<>>
                /\ fe'.frames_encoded = fe.frames_encoded
                /\ fe'.bytes_sent = fe.bytes_sent
             \/ /\ fe'.encode_errors = fe.encode_errors
                /\ Len(new) >= FrameResponseSize
                /\ DecodeHeader(Take(new, HeaderSize)).msg_type
                      = HELIX_MSG_FRAME_RESPONSE
                /\ Len(new) = HeaderSize
                      + DecodeHeader(Take(new, HeaderSize)).payload_size
                /\ DecodeFrameResponseBody(
                       SubSeq(new, HeaderSize + 1, FrameResponseSize)).nal_count = 1
                /\ DecodeFrameResponseBody(
                       SubSeq(new, HeaderSize + 1, FrameResponseSize)).pts
                      = Head(enc_jobs).pts
      ]_vars

\* C24: the bitrate with which a FrameRequest configures the encoder is
\* max(8000000, 4 * width * height), for every width and height the 32-bit
\* fields of the request can carry.
C24_DefaultBitrate ==
    (disp.type = "frame" /\ disp.configure = "ok") =>
        /\ disp.width * disp.height <= MaxInt \div 4
        /\ fe.bitrate = IF 4 * disp.width * disp.height > MinBitrate
                        THEN 4 * disp.width * disp.height
                        ELSE MinBitrate

\* C25: the pixel-count default bitrate is used only when no bitrate was
\* explicitly configured. When a ConfigRequest has configured the bitrate
\* ConfigBitrate (a value the default never takes) and a FrameRequest then
\* reconfigures the encoder because the resolution changed, the bitrate is
\* still ConfigBitrate.
C25_ExplicitBitrateKept ==
    [][ ( /\ Dispatching
          /\ fe.configured
          /\ fe.bitrate = ConfigBitrate
          /\ disp'.type = "frame"
          /\ disp'.configure = "ok" ) => fe'.bitrate = ConfigBitrate ]_vars

DispatchingType(type) ==
    /\ Dispatching
    /\ Len(Received) >= HeaderSize
    /\ DecodeHeader(Take(Received, HeaderSize)).magic = HELIX_MSG_MAGIC
    /\ DecodeHeader(Take(Received, HeaderSize)).msg_type = type
\* the bytes the dispatch thread hands to the socket in this step
DispatchWrites == Drop(h2c', Len(h2c)) \o host_sending'

\* C27: a Ping is answered at once, in any encoder state, with exactly one
\* Pong: 12 bytes, a header with the protocol magic, payload_size 0 and the
\* session id of the Ping; dispatch returns OK and the encoder session state
\* is unchanged. (When the guest has closed its end the send fails.)
C27_PingPong ==
    [][ DispatchingType(HELIX_MSG_PING) =>
          /\ disp'.type = "ping"
          /\ disp'.ret = HELIX_ERR_OK
          /\ EncoderUntouched
          /\ fe' = fe
          /\ ~c2h_eof =>
                /\ Len(DispatchWrites) = HeaderSize
                /\ DecodeHeader(DispatchWrites)
                      = [magic |-> HELIX_MSG_MAGIC, msg_type |-> HELIX_MSG_PONG,
                         flags |-> 0,
                         session_id |->
                             DecodeHeader(Take(Received, HeaderSize)).session_id,
                         payload_size |-> 0]
                /\ DecodeHeader(DispatchWrites).session_id = PingSessionId
          /\ c2h_eof => DispatchWrites = <<>>
      ]_vars

\* C27 witness: a Ping was answered with a Pong while the encoder was
\* configured and held a frame
C27_Witness ==
    /\ disp.type = "ping"
    /\ disp.wrote = "pong"
    /\ disp.out_len = HeaderSize
    /\ disp.out_type = HELIX_MSG_PONG
    /\ Len(h2c) = HeaderSize
    /\ DecodeHeader(h2c).session_id = PingSessionId
    /\ fe.configured
    /\ enc_jobs # <<>>

\* C28: a KeyframeRequest is a no-op: dispatch returns OK, the encoder
\* session state and the statistics are unchanged, nothing is submitted to
\* the encoder and no byte is written to the transport.
C28_KeyframeRequestNoOp ==
    [][ DispatchingType(HELIX_MSG_KEYFRAME_REQ) =>
          /\ disp'.type = "keyframe"
          /\ disp'.ret = HELIX_ERR_OK
          /\ disp'.wrote = "none"
          /\ fe' = fe
          /\ EncoderUntouched
          /\ DispatchWrites = <<>>
          /\ answered' = answered
      ]_vars

\* C28 witness: a KeyframeRequest was dispatched while the encoder was
\* configured and held a frame, with the guest's end open
C28_Witness ==
    /\ disp.type = "keyframe"
    /\ disp.ret = HELIX_ERR_OK
    /\ fe.configured
    /\ enc_jobs # <<>>
    /\ ~c2h_eof

(***************************************************************************)
(* Claims about the client's connection and reads.                         *)
(***************************************************************************)
\* the step is a handle_frame call, which begins with gst_vsockenc_connect
CallsConnect == pc = "idle" /\ nframes' = nframes + 1

\* C29: the client connects to the domain-socket path when one is set,
\* whatever the TCP and vsock settings are, else to the TCP host and port
\* when a TCP host is set, else to the vsock CID and port; a connect call of
\* a Connected client opens no socket and succeeds; a failed connect leaves
\* the client Disconnected and the process with no open socket.
C29_ConnectTarget ==
    [][ CallsConnect =>
          /\ connected =>
                /\ call'.connect = "none"
                /\ call'.target = NoTarget
                /\ nconnects' = nconnects
                /\ open_fds' = open_fds
                /\ socket_fd' = socket_fd
                /\ connected'
          /\ ~connected =>
                /\ call'.connect \in {"ok", "fail"}
                /\ socket_path # NULL =>
                      call'.target = [family |-> "AF_UNIX", path |-> socket_path,
                                      host |-> NULL, port |-> NULL, cid |-> NULL]
                /\ (socket_path = NULL /\ tcp_host # NULL) =>
                      call'.target = [family |-> "AF_INET", path |-> NULL,
                                      host |-> tcp_host, port |-> tcp_port,
                                      cid |-> NULL]
                /\ (socket_path = NULL /\ tcp_host = NULL) =>
                      call'.target = [family |-> "AF_VSOCK", path |-> NULL,
                                      host |-> NULL, port |-> port, cid |-> cid]
          /\ call'.connect = "ok" =>
                (connected' /\ socket_fd' >= 0 /\ socket_fd' \in open_fds')
          /\ call'.connect = "fail" =>
                (~connected' /\ socket_fd' = -1 /\ open_fds' = {})
      ]_vars

\* C30: read_exact returns TRUE exactly when n bytes were read, and these
\* are the next n bytes of the stream in order; a short read and a read
\* interrupted by a signal keep the loop going; it returns FALSE only after a
\* read that met the end of the stream or failed with another error; it
\* never takes more than n bytes from the stream.
C30_ReadExact ==
    /\ [](reading.at # "none" =>
            /\ reading.total <= reading.n
            /\ reading.taken - reading.start = reading.total
            /\ reading.buf = [i \in 1..reading.total |->
                                 StreamByte(reading.start + i)]
            /\ (reading.at = "done") = (reading.ret # "none")
            /\ reading.ret = "TRUE" => reading.total = reading.n
            /\ reading.ret = "FALSE" =>
                  (reading.total < reading.n /\ reading.last \in {"eof", "error"}))
    /\ [][ (reading.at = "loop" /\ reading' # reading) =>
              /\ Len(h2c) - Len(h2c') = reading'.total - reading.total
              /\ reading'.reads > reading.reads =>
                    /\ reading.total < reading.n
                    /\ reading'.last = "EINTR" =>
                          (reading'.at = "loop" /\ reading'.total = reading.total)
                    /\ reading'.last = "bytes" =>
                          (reading'.at = "loop" /\ reading'.total > reading.total)
                    /\ reading'.last \in {"eof", "error"} =>
                          (reading'.ret = "FALSE" /\ reading'.total = reading.total)
                    /\ reading'.last = "eof" => (h2c = <<>> /\ h2c_eof)
              /\ reading'.reads = reading.reads =>
                    (reading'.ret = "TRUE" /\ reading.total = reading.n)
          ]_vars

\* C30 witness: the second call returned TRUE for n = 4 after a short read
\* and an interrupted read, and left the byte after its four in the stream
C30_Witness ==
    /\ reading.ret = "TRUE"
    /\ reading.n = MaxReadBytes
    /\ reading.start > 0
    /\ reading.interrupts >= 1
    /\ reading.reads >= 3
    /\ h2c = <<StreamByte(reading.start + reading.n + 1)>>

(***************************************************************************)
(* Claims about the behaviour of the whole client and host.                *)
(***************************************************************************)
\* C31: bytes of a FrameRequest reach the socket only while connected = TRUE,
\* also in a handle_frame call whose drain has failed.
C31_WritesOnlyConnected ==
    [][ (pc = "send" /\ pc' = "idle" /\ Len(c2h') > Len(c2h)) => connected ]_vars

\* C32: every frame stored in the pending slot is finished exactly once: no
\* frame is finished twice, a frame leaves the slot only finished, and a stop
\* that has returned has finished the frame it found in the slot.
C32_PendingFinishedOnce ==
    /\ [](\A f \in Frames : finished[f] <= 1)
    /\ []((call.op = "stop" /\ call.ret = "ok" /\ call.entry_pending # NULL) =>
            (pending_frame = NULL /\ finished[call.entry_pending] = 1))
    /\ [][ (pending_frame # NULL /\ pending_frame' # pending_frame) =>
              finished'[pending_frame] = 1 ]_vars

\* C33: output the client attaches to a frame comes from the FrameResponse
\* to that frame's own FrameRequest: the pts the response echoes is the pts
\* the frame's request carried.
C33_OutputAttribution ==
    (call.drained # NULL /\ call.out.attached) =>
        call.drain_pts = PtsOf(call.drained)

\* C34: connected = TRUE implies that socket_fd is an open descriptor,
\* connected = FALSE implies socket_fd = -1, and a connect never replaces a
\* descriptor that is still open.
C34_ConnectionState ==
    /\ [](connected => (socket_fd >= 0 /\ socket_fd \in open_fds))
    /\ [](~connected => socket_fd = -1)
    /\ [][ nconnects' # nconnects => socket_fd \notin open_fds ]_vars

\* C35: configured = true implies that the encoder session exists, and the
\* recorded width, height, bitrate and realtime are those the live session
\* was created with: they change only in a step that creates the session the
\* frame export then holds.
C35_ConfiguredHasSession ==
    /\ [](fe.configured =>
            (fe.encoder_session # NULL /\ fe.encoder_session \in vt_live))
    /\ [][ (<<fe'.width, fe'.height, fe'.bitrate, fe'.realtime>>
               # <<fe.width, fe.height, fe.bitrate, fe.realtime>>) =>
              /\ vt_created' = vt_created + 1
              /\ fe'.encoder_session = vt_created'
              /\ fe'.configured
              /\ disp'.type = "frame" =>
                    (fe'.width = disp'.width /\ fe'.height = disp'.height)
              /\ disp'.type = "config" =>
                    (fe'.bitrate = ConfigBitrate /\ ~fe'.realtime) ]_vars

\* C36: a drain that met no read failure and read a message with the
\* protocol magic (a FrameResponse, an Error or any other type) has consumed
\* 12 + payload_size bytes, payload_size being that of the message's header.
C36_DrainConsumesMessage ==
    [][ (pc \in {"drain_nb", "drain_b", "stop_drain"}
           /\ call'.drain \in {"frame", "error", "skipped"}) =>
          /\ Len(h2c) >= HeaderSize
          /\ call'.consumed
                = HeaderSize + DecodeHeader(Take(h2c, HeaderSize)).payload_size
      ]_vars

RECURSIVE WholeMessages(_)
\* buf is a sequence of complete messages: each a header with the protocol
\* magic followed by payload_size bytes
WholeMessages(buf) ==
    \/ buf = <<>>
    \/ /\ Len(buf) >= HeaderSize
       /\ DecodeHeader(Take(buf, HeaderSize)).magic = HELIX_MSG_MAGIC
       /\ Len(buf) >= HeaderSize + DecodeHeader(Take(buf, HeaderSize)).payload_size
       /\ WholeMessages(Drop(buf, HeaderSize
                                    + DecodeHeader(Take(buf, HeaderSize)).payload_size))

RECURSIVE FrameResponsesIn(_)
\* the number of complete FrameResponses at the message boundaries of buf
FrameResponsesIn(buf) ==
    IF Len(buf) < HeaderSize
         \/ Len(buf) < HeaderSize + DecodeHeader(Take(buf, HeaderSize)).payload_size
    THEN 0
    ELSE (IF DecodeHeader(Take(buf, HeaderSize)).msg_type = HELIX_MSG_FRAME_RESPONSE
          THEN 1 ELSE 0)
         + FrameResponsesIn(Drop(buf, HeaderSize
                                        + DecodeHeader(Take(buf, HeaderSize)).payload_size))

\* C37: while the guest's end is open and no send is in progress, what the
\* host has written is a sequence of complete messages, and frames_encoded
\* is the number of complete FrameResponses in it.
C37_MessagesWrittenWhole ==
    (~c2h_eof /\ host_sending = <<>> /\ cb_sending = <<>>) =>
        /\ WholeMessages(h2c)
        /\ fe.frames_encoded = FrameResponsesIn(h2c)

\* C38: the dispatch loop ends only when recv met the end of the stream or
\* failed with an error other than an interruption by a signal.
C38_LoopEndsOnEofOrError ==
    [][ (host_pc = "recv" /\ host_pc' = "exit") =>
          \/ (c2h = <<>> /\ c2h_eof /\ disp' = disp)
          \/ (disp'.type = "recv" /\ disp'.why # "EINTR")
      ]_vars

\* the step in which gst_vsockenc_stop returns
StopReturns ==
    /\ call'.op = "stop"
    /\ call'.ret = "ok"
    /\ pc' = "idle"
    /\ pc = "stop_drain" \/ (pc = "idle" /\ running /\ ~running')

\* C39: when stop returns the client is disconnected, socket_fd is -1 and
\* the socket it held is closed; start sets the frame counter to 0; the
\* first handle_frame after start connects anew, on a socket that was not
\* open before and whose stream is empty, and reads nothing.
C39_StopThenStart ==
    /\ []((call.op = "stop" /\ call.ret = "ok") =>
            (~connected /\ socket_fd = -1 /\ ~running))
    /\ [](call.op = "start" => (frame_count = 0 /\ ~connected /\ running))
    /\ [][ /\ StopReturns =>
                (~connected' /\ socket_fd' = -1 /\ socket_fd \notin open_fds')
           /\ (call.op = "start" /\ CallsConnect) =>
                /\ call'.connect \in {"ok", "fail"}
                /\ call'.attempts = <<>>
                /\ call'.drain = "none"
                /\ call'.consumed = 0
                /\ call'.connect = "ok" =>
                      /\ connected'
                      /\ socket_fd' \notin open_fds
                      /\ socket_fd' \in open_fds'
                      /\ h2c' = <<>>
                      /\ ~h2c_eof'
         ]_vars

\* C39 witness: after frame 1 was sent on the first connection, a stop and
\* a start, the next handle_frame has connected a second socket, the first
\* being closed, and the frame counter is 0
C39_Witness ==
    /\ call.op = "handle_frame"
    /\ call.connect = "ok"
    /\ pc = "send"
    /\ nconnects = 2
    /\ open_fds = {2}
    /\ socket_fd = 2
    /\ requests[1] >= 1
    /\ frame_count = 0
    /\ h2c = <<>>


(***************************************************************************)
(* SpecBridge: the capture bridge's main.  gnome-wolf-bridge connects to   *)
(* the Wayland display, starts a screen-cast backend (the XDG portal, or   *)
(* the GNOME Mutter API when the portal is unavailable or fails to start), *)
(* connects PipeWire to the stream, runs its event loop and cleans up.     *)
(* Each action is main from one external call to the next; the outcome of  *)
(* the call is chosen by the environment.                                  *)
(***************************************************************************)
\* the iterations of the event loop that are followed
MaxLoopIters == 2
DefaultWidth == 1920
DefaultHeight == 1080
OtherWidth == 1280
OtherHeight == 720
\* the screen-cast backends
Backends == {"portal", "screencast"}
\* the other clients of the bridge process, which main never touches
BridgeUnchanged ==
    UNCHANGED <<connected, socket_fd, pending_frame, frame_count, running, info,
                keyframe_interval, addrVars, reading, pc, cur, open_fds,
                nconnects, nframes, finished, requests, call, streamVars,
                peerVars, hostVars, guestVars>>
\* gwb_screencast_stop: nothing for a NULL session or one never started
gwb_screencast_stop(b) ==
    IF b.ctx.screencast = NULL THEN [b EXCEPT !.stop_on_null = TRUE]
    ELSE IF "screencast" \in b.started
    THEN [b EXCEPT !.stopped = @ \cup {"screencast"}]
    ELSE b
\* gwb_screencast_destroy: nothing for a NULL session
gwb_screencast_destroy(b) ==
    IF b.ctx.screencast = NULL THEN b
    ELSE [b EXCEPT !.destroyed = @ \cup {"screencast"}]
\* gwb_portal_screencast_stop: nothing for a NULL session or one never started
gwb_portal_screencast_stop(b) ==
    IF b.ctx.portal = NULL THEN [b EXCEPT !.stop_on_null = TRUE]
    ELSE IF "portal" \in b.started
    THEN [b EXCEPT !.stopped = @ \cup {"portal"}]
    ELSE b
\* gwb_portal_screencast_destroy: nothing for a NULL session
gwb_portal_screencast_destroy(b) ==
    IF b.ctx.portal = NULL THEN b
    ELSE [b EXCEPT !.destroyed = @ \cup {"portal"}]
gwb_wayland_destroy(b) ==
    IF b.ctx.wayland = NULL THEN b
    ELSE [b EXCEPT !.destroyed = @ \cup {"wayland"}]
gwb_pipewire_destroy(b) ==
    IF b.ctx.pipewire = NULL THEN b
    ELSE [b EXCEPT !.destroyed = @ \cup {"pipewire"}]
\* main returns
BridgeReturn(b, ret) == [b EXCEPT !.pc = "exit", !.ret = ret]
\* the option loop: the defaults, then --width and --height when given (NULL
\* when not); --help returns 0 and an unknown option returns 1
main_options(opt, w, h) ==
    /\ bridge.pc = "options"
    /\ bridge' =
         IF opt = "help" THEN BridgeReturn(bridge, 0)
         ELSE IF opt = "unknown" THEN BridgeReturn(bridge, 1)
         ELSE [bridge EXCEPT
                 !.ctx.width = IF w = NULL THEN DefaultWidth ELSE w,
                 !.ctx.height = IF h = NULL THEN DefaultHeight ELSE h,
                 !.pc = "wayland"]
    /\ BridgeUnchanged
\* gwb_wayland_create and its failure path
main_wayland_create(ok) ==
    /\ bridge.pc = "wayland"
    /\ bridge' =
         IF ok THEN [bridge EXCEPT !.ctx.wayland = 1, !.pc = "portal_available"]
         ELSE BridgeReturn(bridge, 1)
    /\ BridgeUnchanged
\* gwb_portal_screencast_available and, with the portal, its creation
main_portal_create(available, ok) ==
    /\ bridge.pc = "portal_available"
    /\ bridge' =
         IF ~available THEN [bridge EXCEPT !.pc = "screencast_create"]
         ELSE IF ok
         THEN [bridge EXCEPT !.ctx.use_portal = TRUE, !.ctx.portal = 1,
                             !.pc = "portal_start"]
         ELSE BridgeReturn(gwb_wayland_destroy(
                  [bridge EXCEPT !.ctx.use_portal = TRUE]), 1)
    /\ BridgeUnchanged
\* gwb_portal_screencast_start; a failure destroys the portal session and
\* falls back to the GNOME API
main_portal_start(ok) ==
    /\ bridge.pc = "portal_start"
    /\ bridge' =
         IF ok
         THEN [bridge EXCEPT !.started = @ \cup {"portal"}, !.pc = "pw_create"]
         ELSE [gwb_portal_screencast_destroy(bridge) EXCEPT
                 !.ctx.portal = NULL, !.ctx.use_portal = FALSE,
                 !.pc = "screencast_create"]
    /\ BridgeUnchanged
\* gwb_screencast_create and its failure path
main_screencast_create(ok) ==
    /\ bridge.pc = "screencast_create"
    /\ bridge' =
         IF ok THEN [bridge EXCEPT !.ctx.screencast = 1, !.pc = "screencast_start"]
         ELSE BridgeReturn(gwb_wayland_destroy(bridge), 1)
    /\ BridgeUnchanged
\* gwb_screencast_start and its failure path
main_screencast_start(ok) ==
    /\ bridge.pc = "screencast_start"
    /\ bridge' =
         IF ok
         THEN [bridge EXCEPT !.started = @ \cup {"screencast"}, !.pc = "pw_create"]
         ELSE BridgeReturn(gwb_wayland_destroy(gwb_screencast_destroy(bridge)), 1)
    /\ BridgeUnchanged
\* gwb_pipewire_create; its failure path stops and destroys ctx.screencast
main_pipewire_create(ok) ==
    /\ bridge.pc = "pw_create"
    /\ bridge' =
         IF ok THEN [bridge EXCEPT !.ctx.pipewire = 1, !.pc = "pw_connect"]
         ELSE BridgeReturn(gwb_wayland_destroy(gwb_screencast_destroy(
                  gwb_screencast_stop(bridge))), 1)
    /\ BridgeUnchanged
\* gwb_pipewire_connect; its failure path destroys PipeWire, then stops and
\* destroys ctx.screencast; on success the loop is entered
main_pipewire_connect(ok) ==
    /\ bridge.pc = "pw_connect"
    /\ bridge' =
         IF ok THEN [bridge EXCEPT !.ctx.running = TRUE, !.pc = "loop"]
         ELSE BridgeReturn(gwb_wayland_destroy(gwb_screencast_destroy(
                  gwb_screencast_stop(gwb_pipewire_destroy(bridge)))), 1)
    /\ BridgeUnchanged
\* the cleanup after the loop: PipeWire, the backend use_portal names, Wayland
main_cleanup(b) ==
    LET pw == gwb_pipewire_destroy(b)
        sc == IF pw.ctx.use_portal
              THEN gwb_portal_screencast_destroy(gwb_portal_screencast_stop(pw))
              ELSE gwb_screencast_destroy(gwb_screencast_stop(pw))
    IN  BridgeReturn(gwb_wayland_destroy(sc), 0)
\* one test of the loop condition and the turn it allows, with the cleanup
\* when the loop is left; in a turn all three calls succeed ("ok"), or poll,
\* gwb_wayland_dispatch or gwb_pipewire_dispatch fails
main_loop(outcome) ==
    /\ bridge.pc = "loop"
    /\ outcome = "ok" /\ bridge.ctx.running => bridge.iters < MaxLoopIters
    /\ bridge' =
         IF bridge.ctx.running /\ outcome = "ok"
         THEN [bridge EXCEPT !.iters = @ + 1]
         ELSE main_cleanup(bridge)
    /\ BridgeUnchanged
\* SIGINT or SIGTERM
signal_handler ==
    /\ bridge.pc # "exit"
    /\ bridge.ctx.running
    /\ bridge' = [bridge EXCEPT !.ctx.running = FALSE]
    /\ BridgeUnchanged
BridgeInit == Init /\ keyframe_interval = 0
BridgeNext ==
    \/ \E opt \in {"run", "help", "unknown"}, w \in {NULL, OtherWidth},
          h \in {NULL, OtherHeight} : main_options(opt, w, h)
    \/ \E ok \in BOOLEAN : main_wayland_create(ok)
    \/ \E available \in BOOLEAN, ok \in BOOLEAN : main_portal_create(available, ok)
    \/ \E ok \in BOOLEAN : main_portal_start(ok)
    \/ \E ok \in BOOLEAN : main_screencast_create(ok)
    \/ \E ok \in BOOLEAN : main_screencast_start(ok)
    \/ \E ok \in BOOLEAN : main_pipewire_create(ok)
    \/ \E ok \in BOOLEAN : main_pipewire_connect(ok)
    \/ \E outcome \in {"ok", "poll", "wayland_dispatch", "pipewire_dispatch"} :
          main_loop(outcome)
    \/ signal_handler
SpecBridge == BridgeInit /\ [][BridgeNext]_vars

\* C40: on every exit path of main taken after a screen-cast backend was
\* started, the started backend has been stopped and destroyed, no other
\* backend was stopped, and no stop was handed a NULL session.
C40_StartedBackendReleased ==
    bridge.pc = "exit" =>
        /\ \A k \in Backends : k \in bridge.started =>
               (k \in bridge.stopped /\ k \in bridge.destroyed)
        /\ bridge.stopped \subseteq bridge.started
        /\ bridge.started # {} => ~bridge.stop_on_null

====
